---- MODULE Spec2Model ----
(***************************************************************************)
(* Swapable: automated liquidity pools.  Model of the command execution    *)
(* framework (BaseCommand / Executable), the pool commands (CreatePool,    *)
(* AddLiquidity, RemoveLiquidity, Swap, Publish) and the pool orchestrator *)
(* (AutomatedPool).                                                        *)
(***************************************************************************)
EXTENDS Integers, Sequences, FiniteSets, TLC

VARIABLES
  mosaicInfo,   \* AutomatedPool.mosaicInfo : held shares-supply snapshot
  reserveInfo,  \* AutomatedPool.reserveInfo: held reserve snapshot
  pending,      \* the online call suspended in `await this.synchronize()`
  result,       \* what the last completed call did and returned
  ledger,       \* the batches confirmed on the network, in order, each with
                \* the command that produced it
  calls         \* the execute calls in progress on the orchestrator: where
                \* each is and what its own synchronize() has read

vars == <<mosaicInfo, reserveInfo, pending, result, ledger, calls>>

----------------------------------------------------------------------------
(* Bounds of the model *)

MaxAmount == 1
MaxReserve == 2
MaxSupply == 2
MaxMath == 3
MaxCalls == 2
MaxSettled == 3
MaxHistory == 4
MaxPage == 3
MaxRequests == 3

----------------------------------------------------------------------------
(* Identities, assets and arguments *)

Revision == 2

Accounts == {"target", "alice", "bob"}
PoolTarget == "target"
NoAccount == "none"

AssetIdentifier(id, target) == [id |-> id, target |-> target]
XAsset == AssetIdentifier("x", "issuer")
YAsset == AssetIdentifier("y", "issuer")
NoAsset == AssetIdentifier("none", "none")
Assets == {XAsset, YAsset}

\* AssetIdentifier.toMosaicId(): the ledger id derived from (nonce, owner)
toMosaicId(identifier) == <<identifier.id, identifier.target>>
\* MosaicId.toHex()
toHex(mosaicId) == mosaicId[1] \o "@" \o mosaicId[2]

AssetAmount(identifier, amount) == [identifier |-> identifier, amount |-> amount]
NoAmount == AssetAmount(NoAsset, 0)

\* AutomatedPool.identifier, derived once from (name, target, source)
PoolIdentifier == AssetIdentifier("91a1d506", PoolTarget)

\* The option names the commands read, and an argument bag without options.
\* An option that is absent holds the marker of its type.
EmptyArgv ==
  [provider |-> NoAccount, trader |-> NoAccount, registry |-> NoAccount,
   input_x |-> NoAmount, input_y |-> NoAmount, input_shares |-> NoAmount,
   output |-> NoAsset]

Absent(name) ==
  CASE name \in {"provider", "trader", "registry"} -> NoAccount
    [] name \in {"input_x", "input_y", "input_shares"} -> NoAmount
    [] name = "output" -> NoAsset

\* Context.getInput(name, null) !== null
HasInput(argv, name) == argv[name] # Absent(name)

\* Context.getInput(name, defaultValue)
getInput(argv, name, defaultValue) ==
  IF HasInput(argv, name) THEN argv[name] ELSE defaultValue

Symbol_Testnet_SWP == AssetIdentifier("00000001", "none")
Symbol_Testnet_XYM == AssetIdentifier("00000002", "none")

----------------------------------------------------------------------------
(* Snapshots held by the orchestrator and injected into a command *)

NoMosaicInfo == [present |-> FALSE, id |-> toMosaicId(NoAsset), supply |-> 0]
MosaicInfo(id, supply) == [present |-> TRUE, id |-> id, supply |-> supply]

NoMosaics == [a \in {toMosaicId(XAsset), toMosaicId(YAsset)} |-> 0]
NoReserveInfo == [present |-> FALSE, mosaics |-> NoMosaics]
AccountInfo(rx, ry) ==
  [present |-> TRUE,
   mosaics |-> [a \in {toMosaicId(XAsset), toMosaicId(YAsset)} |->
                  IF a = toMosaicId(XAsset) THEN rx ELSE ry]]

----------------------------------------------------------------------------
(* Numbers: the commands compute with IEEE doubles.  A value is a finite   *)
(* fraction n/d, a signed infinity or NaN.                                  *)

Fin(n, d) == [kind |-> "fin", n |-> n, d |-> d]
Inf(sign) == [kind |-> "inf", n |-> sign, d |-> 1]
NaN == [kind |-> "nan", n |-> 0, d |-> 1]

\* a / b for non-negative integers a, b
Div(a, b) ==
  IF b # 0 THEN Fin(a, b)
  ELSE IF a = 0 THEN NaN ELSE Inf(1)

\* a - q for an integer a
SubFrom(a, q) ==
  CASE q.kind = "fin" -> Fin(a * q.d - q.n, q.d)
    [] q.kind = "inf" -> Inf(0 - q.n)
    [] q.kind = "nan" -> NaN

Less(p, q) ==
  CASE p.kind = "fin" /\ q.kind = "fin" -> p.n * q.d < q.n * p.d
    [] p.kind = "inf" /\ q.kind = "fin" -> p.n < 0
    [] p.kind = "fin" /\ q.kind = "inf" -> q.n > 0
    [] OTHER -> p.n < q.n

\* Math.min(p, q)
MathMin(p, q) ==
  IF p.kind = "nan" \/ q.kind = "nan" THEN NaN
  ELSE IF Less(q, p) THEN q ELSE p

IsNegative(q) == q.kind # "nan" /\ q.n < 0

\* UInt64.fromUint(value): throws on a negative value; otherwise keeps the
\* integer part (the two 32-bit halves are cut out with >>> 0, which maps
\* NaN and Infinity to 0).
fromUintMutant(q) ==
  IF q.kind = "fin" THEN (q.n + q.d - 1) \div q.d ELSE 0
fromUint(q) ==
  IF q.kind = "fin" THEN q.n \div q.d ELSE 0

\* String(value) of a number, as embedded in a proof message
NumText(q) ==
  CASE q.kind = "nan" -> "NaN"
    [] q.kind = "inf" -> IF q.n < 0 THEN "-Infinity" ELSE "Infinity"
    [] q.kind = "fin" /\ q.n % q.d = 0 -> ToString(q.n \div q.d)
    [] OTHER -> ToString(q.n) \o "/" \o ToString(q.d)

\* floor(scale * sqrt(n)), digit by digit (one decimal digit per step):
\* root p and remainder c with p*p + c = n * 100^k
RECURSIVE SqrtDigits(_, _, _)
SqrtDigits(p, c, digits) ==
  IF digits = 0 THEN p
  ELSE LET c100 == 100 * c
           d == CHOOSE e \in 0..9 :
                  /\ e * (20 * p + e) <= c100
                  /\ (e = 9 \/ (e + 1) * (20 * p + e + 1) > c100)
       IN SqrtDigits(10 * p + d, c100 - d * (20 * p + d), digits - 1)

ISqrt(n) == CHOOSE r \in 0..n : r * r <= n /\ (r + 1) * (r + 1) > n

\* UInt64.fromUint(1_000_000 * Math.sqrt(n))
SharesOfMutant(n) == ISqrt(n)
SharesOf(n) == SqrtDigits(ISqrt(n), n - ISqrt(n) * ISqrt(n), 6)

----------------------------------------------------------------------------
(* Ledger operations of a batch.  Every entry is an inner transaction with *)
(* the signer it was converted with (transaction.toAggregate(signer)).     *)

Mosaic(id, amount) == [id |-> id, amount |-> amount]
EmptyMessage == <<>>

Tx(type, recipient, mosaics, key, value, message) ==
  [type |-> type, signer |-> "unsigned", recipient |-> recipient,
   mosaics |-> mosaics, key |-> key, value |-> value, message |-> message]

TransferTransaction(recipient, mosaics, message) ==
  Tx("Transfer", recipient, mosaics, "", "", message)
MosaicSupplyChangeTransaction(mosaicId, action, delta) ==
  Tx("MosaicSupplyChange", "none", <<Mosaic(mosaicId, delta)>>, action, "", EmptyMessage)
MosaicDefinitionTransaction(mosaicId) ==
  Tx("MosaicDefinition", "none", <<Mosaic(mosaicId, 0)>>, "", "", EmptyMessage)
AccountMetadataTransaction(account, key, value) ==
  Tx("AccountMetadata", account, <<>>, key, value, EmptyMessage)
MosaicMetadataTransaction(account, key, mosaicId, value) ==
  Tx("MosaicMetadata", account, <<Mosaic(mosaicId, 0)>>, key, value, EmptyMessage)
AccountMosaicRestrictionTransaction(flag, mosaicIds) ==
  Tx("AccountMosaicRestriction", "none",
     [i \in 1..Len(mosaicIds) |-> Mosaic(mosaicIds[i], 0)], flag, "", EmptyMessage)

\* transaction.toAggregate(signer)
toAggregate(transaction, signer) == [transaction EXCEPT !.signer = signer]

\* transactions.map((transaction, i) => transaction.toAggregate(signers[i]))
Signed(transactions, signers) ==
  [i \in 1..Len(transactions) |-> toAggregate(transactions[i], signers[i])]

FeeMosaicId == <<"fee", "nemesis">>

----------------------------------------------------------------------------
(* Commands.  A command instance is built around a context and the shares  *)
(* asset identifier; the orchestrator then sets mosaicInfo / reserveInfo.  *)

Context(revision, actor, argv) == [revision |-> revision, actor |-> actor, argv |-> argv]

\* The mandatory arguments each command declares
Arguments(name) ==
  CASE name = "CreatePool" -> <<"provider", "input_x", "input_y">>
    [] name = "AddLiquidity" -> <<"provider", "input_x", "input_y">>
    [] name = "RemoveLiquidity" -> <<"provider", "input_shares">>
    [] name = "Swap" -> <<"trader", "input_x", "output">>
    [] name = "Publish" -> <<"registry">>
    [] OTHER -> <<>>

KebabName(name) ==
  CASE name = "CreatePool" -> "create-pool"
    [] name = "AddLiquidity" -> "add-liquidity"
    [] name = "RemoveLiquidity" -> "remove-liquidity"
    [] name = "Swap" -> "swap"
    [] name = "Publish" -> "publish"
    [] OTHER -> "executable"

\* new Executable(context, identifier): `arguments` and `list` are what a
\* subclass declares (the five pool commands declare theirs themselves).
Executable(name, arguments, list, context, identifier) ==
  [name |-> name, arguments |-> arguments, list |-> list,
   context |-> context, identifier |-> identifier, target |-> identifier.target,
   mosaicInfo |-> NoMosaicInfo, reserveInfo |-> NoReserveInfo, sharesInfo |-> 0]

\* get descriptor()
DescriptorMutant(cmd) ==
  <<"Swapable(v" \o ToString(cmd.context.revision) \o ")", KebabName(cmd.name)>>
Descriptor(cmd) ==
  <<"Swapable(v" \o ToString(cmd.context.revision) \o ")", KebabName(cmd.name), cmd.identifier.id>>

\* Executable.reserveOf(identifier): the held balance of an asset
reserveOf(cmd, identifier) ==
  IF cmd.reserveInfo.present /\ toMosaicId(identifier) \in DOMAIN cmd.reserveInfo.mosaics
  THEN cmd.reserveInfo.mosaics[toMosaicId(identifier)]
  ELSE 0

\* this.mosaicInfo?.id!.toHex()
MosaicInfoHex(cmd) ==
  IF cmd.mosaicInfo.present THEN toHex(cmd.mosaicInfo.id) ELSE "undefined"

\* BaseCommand.assertHasMandatoryArguments: the first declared field whose
\* input is null, "" when none is missing.
MissingArgumentMutant(argv, fields) == ""
assertHasMandatoryArguments(argv, fields) ==
  LET missing == {i \in 1..Len(fields) : ~HasInput(argv, fields[i])}
  IN IF missing = {} THEN ""
     ELSE fields[CHOOSE i \in missing : \A j \in missing : i <= j]

\* What canExecute did: the steps it ran, then a thrown failure or a result.
AllowanceMutant(status, trace) == [failure |-> "", arg |-> "", status |-> TRUE, trace |-> trace]
Allowance(status, trace) == [failure |-> "", arg |-> "", status |-> status, trace |-> trace]
Failure(kind, arg, trace) == [failure |-> kind, arg |-> arg, status |-> FALSE, trace |-> trace]

\* Executable.canExecute: the default allowance ("owner only")
DefaultAllowanceMutant(cmd, actor) == TRUE
DefaultAllowance(cmd, actor) == actor = cmd.target

\* Swap.canExecute, after the mandatory arguments were asserted
SwapAllowanceMutant(cmd, actor) ==
  LET input_x == getInput(cmd.context.argv, "input_x", AssetAmount(Symbol_Testnet_SWP, 10))
      reserve_x == reserveOf(cmd, input_x.identifier)
  IN cmd.reserveInfo.present /\ cmd.mosaicInfo.present
     /\ input_x.amount > 0
     /\ reserve_x >= input_x.amount
SwapAllowance(cmd, actor) ==
  LET input_x == getInput(cmd.context.argv, "input_x", AssetAmount(Symbol_Testnet_SWP, 10))
      reserve_x == reserveOf(cmd, input_x.identifier)
  IN cmd.reserveInfo.present /\ cmd.mosaicInfo.present
     /\ input_x.amount > 0
     /\ reserve_x > input_x.amount

\* AddLiquidity.canExecute, after the mandatory arguments were asserted
AddLiquidityAllowanceMutant(cmd, actor) == cmd.reserveInfo.present
AddLiquidityAllowance(cmd, actor) == cmd.reserveInfo.present /\ cmd.mosaicInfo.present

\* RemoveLiquidity.canExecute, after the mandatory arguments were asserted
RemoveLiquidityAllowanceMutant(cmd, actor) ==
  LET input_shares == getInput(cmd.context.argv, "input_shares", NoAmount)
  IN cmd.reserveInfo.present /\ cmd.mosaicInfo.present
     /\ input_shares.amount < cmd.sharesInfo
RemoveLiquidityAllowance(cmd, actor) ==
  LET input_shares == getInput(cmd.context.argv, "input_shares", NoAmount)
  IN cmd.reserveInfo.present /\ cmd.mosaicInfo.present
     /\ input_shares.amount <= cmd.sharesInfo

\* Publish.canExecute, after the mandatory arguments were asserted
PublishAllowanceMutant(cmd, actor) == TRUE
PublishAllowance(cmd, actor) == actor = cmd.target

\* canExecute(actor, argv) of the command's class
canExecute(cmd, actor) ==
  LET missing == assertHasMandatoryArguments(cmd.context.argv, cmd.arguments)
      asserted == <<"assertHasMandatoryArguments">>
  IN IF missing # "" THEN Failure("MissingArgument", missing, asserted)
     ELSE CASE cmd.name = "CreatePool" ->
                 Allowance(TRUE, asserted \o <<"allowance">>)
            [] cmd.name = "AddLiquidity" ->
                 Allowance(AddLiquidityAllowance(cmd, actor), asserted \o <<"allowance">>)
            [] cmd.name = "RemoveLiquidity" ->
                 Allowance(RemoveLiquidityAllowance(cmd, actor), asserted \o <<"allowance">>)
            [] cmd.name = "Swap" ->
                 Allowance(SwapAllowance(cmd, actor), asserted \o <<"reserveOf", "allowance">>)
            [] cmd.name = "Publish" ->
                 Allowance(PublishAllowance(cmd, actor), asserted \o <<"allowance">>)
            [] OTHER ->
                 Allowance(DefaultAllowance(cmd, actor), asserted \o <<"allowance">>)

----------------------------------------------------------------------------
(* The transaction list of each command (get transactions()) *)

\* Swap: "Calculate output": reserve_y - kLast / (reserve_x + input_x.amount)
SwapOutputMutant(cmd) ==
  LET input_x == getInput(cmd.context.argv, "input_x", AssetAmount(Symbol_Testnet_SWP, 10))
      output == getInput(cmd.context.argv, "output", AssetIdentifier("00000001", "none"))
  IN Div(reserveOf(cmd, output) * input_x.amount, reserveOf(cmd, input_x.identifier))
SwapOutput(cmd) ==
  LET input_x == getInput(cmd.context.argv, "input_x", AssetAmount(Symbol_Testnet_SWP, 10))
      output == getInput(cmd.context.argv, "output", AssetIdentifier("00000001", "none"))
      reserve_x == reserveOf(cmd, input_x.identifier)
      reserve_y == reserveOf(cmd, output)
      kLast == reserve_x * reserve_y
  IN SubFrom(reserve_y, Div(kLast, reserve_x + input_x.amount))

SwapSigners(cmd) ==
  LET trader == getInput(cmd.context.argv, "trader", NoAccount)
  IN <<trader, cmd.target, cmd.target>>

SwapTransactions(cmd) ==
  LET trader == getInput(cmd.context.argv, "trader", NoAccount)
      input_x == getInput(cmd.context.argv, "input_x", AssetAmount(Symbol_Testnet_SWP, 10))
      output == getInput(cmd.context.argv, "output", AssetIdentifier("00000001", "none"))
      output_y == SwapOutput(cmd)
  IN Signed(
       << \* 01: transfers the input currency to the target account
          TransferTransaction(cmd.target,
            <<Mosaic(toMosaicId(input_x.identifier), input_x.amount)>>, EmptyMessage),
          \* 02: transfers the output currency to the trader account
          TransferTransaction(trader,
            <<Mosaic(toMosaicId(output), fromUint(output_y))>>, EmptyMessage),
          \* 03: execution proof
          TransferTransaction(cmd.target, <<>>,
            Descriptor(cmd) \o <<MosaicInfoHex(cmd), ToString(input_x.amount), NumText(output_y)>>) >>,
       SwapSigners(cmd))

\* AddLiquidity: "Calculate liquidity proportions"
LiquidityMutant(cmd) ==
  LET input_x == getInput(cmd.context.argv, "input_x", AssetAmount(Symbol_Testnet_SWP, 10))
      supply_lp == IF cmd.mosaicInfo.present THEN cmd.mosaicInfo.supply ELSE 0
      reserve_x == reserveOf(cmd, input_x.identifier)
  IN Div(input_x.amount * supply_lp, reserve_x)
Liquidity(cmd) ==
  LET input_x == getInput(cmd.context.argv, "input_x", AssetAmount(Symbol_Testnet_SWP, 10))
      input_y == getInput(cmd.context.argv, "input_y", AssetAmount(Symbol_Testnet_XYM, 10))
      supply_lp == IF cmd.mosaicInfo.present THEN cmd.mosaicInfo.supply ELSE 0
      reserve_x == reserveOf(cmd, input_x.identifier)
      reserve_y == reserveOf(cmd, input_y.identifier)
  IN MathMin(Div(input_x.amount * supply_lp, reserve_x),
             Div(input_y.amount * supply_lp, reserve_y))

AddLiquiditySignersActor(cmd) ==
  <<cmd.target, cmd.target, cmd.context.actor, cmd.context.actor>>
AddLiquiditySignersMutant(cmd) ==
  <<cmd.target, cmd.target, cmd.target, cmd.target>>
AddLiquiditySigners(cmd) ==
  LET provider == getInput(cmd.context.argv, "provider", NoAccount)
  IN <<cmd.target, cmd.target, provider, provider>>

AddLiquidityTransactions(cmd) ==
  LET provider == getInput(cmd.context.argv, "provider", NoAccount)
      input_x == getInput(cmd.context.argv, "input_x", AssetAmount(Symbol_Testnet_SWP, 10))
      input_y == getInput(cmd.context.argv, "input_y", AssetAmount(Symbol_Testnet_XYM, 10))
      liquidity == Liquidity(cmd)
  IN Signed(
       << \* 01: creates the added pool shares
          MosaicSupplyChangeTransaction(cmd.mosaicInfo.id, "Increase", fromUint(liquidity)),
          \* 02: transfers the added pool shares to the liquidity provider
          TransferTransaction(provider,
            <<Mosaic(toMosaicId(cmd.identifier), fromUint(liquidity))>>, EmptyMessage),
          \* 03: transfers the added liquidity to the target account
          TransferTransaction(cmd.target,
            <<Mosaic(toMosaicId(input_x.identifier), input_x.amount),
              Mosaic(toMosaicId(input_y.identifier), input_y.amount)>>, EmptyMessage),
          \* 04: execution proof
          TransferTransaction(cmd.target, <<>>,
            Descriptor(cmd) \o <<MosaicInfoHex(cmd),
                                 toHex(toMosaicId(input_x.identifier)),
                                 toHex(toMosaicId(input_y.identifier))>>) >>,
       AddLiquiditySigners(cmd))

CreatePoolSignersMutant(cmd) ==
  LET provider == getInput(cmd.context.argv, "provider", NoAccount)
  IN <<cmd.target, cmd.target, cmd.target, cmd.target, cmd.target, cmd.target,
       cmd.target, provider, provider, provider>>
CreatePoolSigners(cmd) ==
  LET provider == getInput(cmd.context.argv, "provider", NoAccount)
  IN <<cmd.target, cmd.target, cmd.target, cmd.target, cmd.target, cmd.target,
       cmd.target, cmd.target, provider, provider>>

CreatePoolTransactions(cmd) ==
  LET provider == getInput(cmd.context.argv, "provider", NoAccount)
      input_x == getInput(cmd.context.argv, "input_x", AssetAmount(Symbol_Testnet_SWP, 10))
      input_y == getInput(cmd.context.argv, "input_y", AssetAmount(Symbol_Testnet_XYM, 10))
      shares == SharesOf(input_x.amount * input_y.amount)
      mosaicId == <<cmd.identifier.id, cmd.target>>
  IN Signed(
       << AccountMetadataTransaction(cmd.target, "Pool_Id", cmd.identifier.id),
          MosaicDefinitionTransaction(mosaicId),
          MosaicSupplyChangeTransaction(mosaicId, "Increase", shares),
          MosaicMetadataTransaction(cmd.target, "Pool_Id", mosaicId, cmd.identifier.id),
          MosaicMetadataTransaction(cmd.target, "X_Id", mosaicId, input_x.identifier.id),
          MosaicMetadataTransaction(cmd.target, "Y_Id", mosaicId, input_y.identifier.id),
          AccountMosaicRestrictionTransaction("AllowMosaic",
            <<mosaicId, FeeMosaicId,
              toMosaicId(input_x.identifier), toMosaicId(input_y.identifier)>>),
          \* 08: transfers the issued pool shares to the liquidity provider
          TransferTransaction(provider,
            <<Mosaic(toMosaicId(cmd.identifier), shares)>>, EmptyMessage),
          \* 09: transfers the initial liquidity to the target account
          TransferTransaction(cmd.target,
            <<Mosaic(toMosaicId(input_x.identifier), input_x.amount),
              Mosaic(toMosaicId(input_y.identifier), input_y.amount)>>, EmptyMessage),
          \* 10: execution proof
          TransferTransaction(cmd.target, <<>>,
            Descriptor(cmd) \o <<toHex(mosaicId),
                                 toHex(toMosaicId(input_x.identifier)),
                                 toHex(toMosaicId(input_y.identifier))>>) >>,
       CreatePoolSigners(cmd))

PublishTransactions(cmd) ==
  LET registry == getInput(cmd.context.argv, "registry", NoAccount)
  IN Signed(<< TransferTransaction(registry, <<>>, Descriptor(cmd)) >>, <<cmd.target>>)

\* RemoveLiquidity: out = input_shares * reserve / supply for each paired asset
RemoveLiquidityOut(cmd, asset) ==
  LET input_shares == getInput(cmd.context.argv, "input_shares", NoAmount)
      supply_lp == IF cmd.mosaicInfo.present THEN cmd.mosaicInfo.supply ELSE 0
  IN Div(input_shares.amount * reserveOf(cmd, asset), supply_lp)

RemoveLiquidityTransactions(cmd) ==
  LET provider == getInput(cmd.context.argv, "provider", NoAccount)
      input_shares == getInput(cmd.context.argv, "input_shares", NoAmount)
  IN Signed(
       << MosaicSupplyChangeTransaction(cmd.mosaicInfo.id, "Decrease", input_shares.amount),
          TransferTransaction(provider,
            <<Mosaic(toMosaicId(XAsset), fromUint(RemoveLiquidityOut(cmd, XAsset))),
              Mosaic(toMosaicId(YAsset), fromUint(RemoveLiquidityOut(cmd, YAsset)))>>,
            EmptyMessage),
          TransferTransaction(cmd.target, <<>>, Descriptor(cmd) \o <<MosaicInfoHex(cmd)>>) >>,
       <<cmd.target, cmd.target, provider>>)

\* get transactions() of the command's class
transactions(cmd) ==
  CASE cmd.name = "CreatePool" -> CreatePoolTransactions(cmd)
    [] cmd.name = "AddLiquidity" -> AddLiquidityTransactions(cmd)
    [] cmd.name = "RemoveLiquidity" -> RemoveLiquidityTransactions(cmd)
    [] cmd.name = "Swap" -> SwapTransactions(cmd)
    [] cmd.name = "Publish" -> PublishTransactions(cmd)
    [] OTHER -> cmd.list

----------------------------------------------------------------------------
(* Authorization / execution state machine (BaseCommand, Executable) *)

\* What a call did: the steps it ran, and what it returned or threw.
Outcome(kind, failure, arg, status, batch, trace) ==
  [kind |-> kind, failure |-> failure, arg |-> arg, status |-> status,
   batch |-> batch, trace |-> trace]
NoOutcome == Outcome("none", "", "", FALSE, <<>>, <<>>)
Thrown(failure, arg, trace) == Outcome("failure", failure, arg, FALSE, <<>>, trace)

\* BaseCommand.assertExecutionAllowance: the failure thrown on a denial
assertExecutionAllowanceMutant(auth) == ""
assertExecutionAllowance(auth) ==
  IF ~auth.status THEN "OperationForbidden" ELSE ""

\* Executable.prepare: the sanity check `!this.transactions.length`
IsEmptyContractMutant(list) == FALSE
IsEmptyContract(list) == Len(list) = 0

\* Executable.prepare: the digital contract (an unsigned aggregate bonded)
prepare(cmd, trace) ==
  LET list == transactions(cmd)
  IN IF IsEmptyContract(list)
     THEN Thrown("EmptyContract", "", trace \o <<"transactions">>)
     ELSE Outcome("batch", "", "", TRUE, list,
                  trace \o <<"transactions", "transactions", "createBonded">>)

\* Executable.execute(actor, argv)
executeMutant(cmd, actor) == prepare(cmd, canExecute(cmd, actor).trace)
execute(cmd, actor) ==
  LET auth == canExecute(cmd, actor)
  IN IF auth.failure # "" THEN Thrown(auth.failure, auth.arg, auth.trace)
     ELSE IF assertExecutionAllowance(auth) # ""
          THEN Thrown(assertExecutionAllowance(auth), "", auth.trace)
          ELSE prepare(cmd, auth.trace)

\* canExecute(actor, argv) called by itself
allowanceOf(cmd, actor) ==
  LET auth == canExecute(cmd, actor)
  IN IF auth.failure # "" THEN Thrown(auth.failure, auth.arg, auth.trace)
     ELSE Outcome("allowance", "", "", auth.status, <<>>, auth.trace)

----------------------------------------------------------------------------
(* Pool orchestrator (AutomatedPool) *)

\* The registered command names: the own keys of the AssetCommands object
AssetCommands == {"CreatePool", "AddLiquidity", "RemoveLiquidity", "Swap", "Publish"}

\* Names every object literal inherits from Object.prototype
ObjectPrototype == {"constructor", "toString", "valueOf", "hasOwnProperty", "__proto__"}

\* AssetCommands[command]: a property read, which follows the prototype chain
Lookup(command) ==
  IF command \in AssetCommands THEN "factory"
  ELSE IF command \in ObjectPrototype THEN "inherited"
  ELSE "undefined"

\* AutomatedPool.getCommand, then the injection of the held snapshot and the
\* call of `method` ("execute" or "canExecute") on the instance
Dispatch(method, actor, sharesAssetId, command, argv, held, prefix) ==
  LET context == Context(Revision, actor, argv)
      built == Executable(command, Arguments(command), <<>>, context, sharesAssetId)
      cmdFn == [built EXCEPT !.mosaicInfo = held.mosaicInfo,
                             !.reserveInfo = held.reserveInfo,
                             !.sharesInfo = held.sharesInfo]
      trace == prefix \o <<"getCommand">>
      ran == IF method = "execute" THEN execute(cmdFn, actor) ELSE allowanceOf(cmdFn, actor)
  IN CASE Lookup(command) = "undefined" ->
            [cmd |-> built, resolved |-> FALSE, out |-> Thrown("InvalidCommand", "", trace)]
       [] Lookup(command) = "inherited" ->
            \* the inherited property is no command factory: what it returns
            \* has no execute / canExecute method
            [cmd |-> built, resolved |-> FALSE, out |-> Thrown("TypeError", "", trace)]
       [] OTHER ->
            [cmd |-> cmdFn, resolved |-> TRUE, out |-> [ran EXCEPT !.trace = trace \o ran.trace]]

----------------------------------------------------------------------------
(* Inputs of the calls *)

Amounts == 0..MaxAmount
InputAmounts == {AssetAmount(a, n) : a \in Assets, n \in Amounts}
XAmounts == {AssetAmount(XAsset, n) : n \in Amounts}
YAmounts == {AssetAmount(YAsset, n) : n \in Amounts}
ShareAmounts == {AssetAmount(PoolIdentifier, n) : n \in Amounts}

CommandNames == AssetCommands \cup {"unknown", "constructor", "toString"}

Argvs(command) ==
  CASE command \in {"CreatePool", "AddLiquidity"} ->
         {[EmptyArgv EXCEPT !.provider = p, !.input_x = x, !.input_y = y] :
            p \in Accounts \cup {NoAccount},
            x \in XAmounts \cup {NoAmount},
            y \in YAmounts \cup {NoAmount}}
    [] command = "RemoveLiquidity" ->
         {[EmptyArgv EXCEPT !.provider = p, !.input_shares = n] :
            p \in Accounts \cup {NoAccount}, n \in ShareAmounts \cup {NoAmount}}
    [] command = "Swap" ->
         {[EmptyArgv EXCEPT !.trader = t, !.input_x = x, !.output = o] :
            t \in Accounts \cup {NoAccount},
            x \in InputAmounts \cup {NoAmount},
            o \in Assets \cup {NoAsset}}
    [] command = "Publish" ->
         {[EmptyArgv EXCEPT !.registry = r] : r \in Accounts \cup {NoAccount}}
    [] OTHER -> {EmptyArgv}

\* What the ledger can answer to the two reads of synchronize(); a failed
\* read is mapped to undefined by catchError.
MosaicReads ==
  {NoMosaicInfo} \cup {MosaicInfo(toMosaicId(PoolIdentifier), s) : s \in 0..MaxSupply}
ReserveReads ==
  {NoReserveInfo} \cup {AccountInfo(rx, ry) : rx \in 0..MaxReserve, ry \in 0..MaxReserve}

\* The provider's share balance known to a RemoveLiquidity command
ShareBalances(command) ==
  IF command = "RemoveLiquidity" THEN Amounts ELSE {0}

Held(balance) ==
  [mosaicInfo |-> mosaicInfo, reserveInfo |-> reserveInfo, sharesInfo |-> balance]

----------------------------------------------------------------------------
(* State *)

\* The online call suspended in synchronize(): which entry point it is and
\* which await it has reached.
NoPending == [entry |-> "none", pc |-> "idle"]
PendingMutant(entry) == [entry |-> entry, pc |-> "resume"]
Pending(entry) == [entry |-> entry, pc |-> "getMosaic"]

NoCommand == Executable("", <<>>, <<>>, Context(Revision, NoAccount, EmptyArgv), NoAsset)
Result(entry, actor, dispatched) ==
  [entry |-> entry, actor |-> actor, cmd |-> dispatched.cmd,
   resolved |-> dispatched.resolved, out |-> dispatched.out]
NoResult ==
  Result("none", NoAccount, [cmd |-> NoCommand, resolved |-> FALSE, out |-> NoOutcome])

\* An execute call of the orchestrator: the await it has reached and what
\* the reads of its own synchronize() returned
CallIds == 1..MaxCalls
Call(pc, mosaic, reserve) == [pc |-> pc, mosaicInfo |-> mosaic, reserveInfo |-> reserve]
NoCalls == [c \in CallIds |-> Call("idle", NoMosaicInfo, NoReserveInfo)]

Init ==
  /\ mosaicInfo = NoMosaicInfo
  /\ reserveInfo = NoReserveInfo
  /\ pending = NoPending
  /\ result = NoResult
  /\ ledger = <<>>
  /\ calls = NoCalls

\* No call is in progress and the last call's outcome has been consumed: each
\* context and command instance is built per call and discarded afterwards.
Idle == pending = NoPending /\ result = NoResult

----------------------------------------------------------------------------
(* Entry points of the orchestrator.  The arguments of an online call are  *)
(* first read once synchronize() has resolved: they are drawn when the     *)
(* call resumes.                                                           *)

\* AutomatedPool.execute / publish / synchronize, up to the first await
Begin(entry) ==
  /\ Idle
  /\ pending' = Pending(entry)
  /\ UNCHANGED <<mosaicInfo, reserveInfo, result, ledger, calls>>

ExecuteBegin == Begin("execute")
PublishBegin == Begin("publish")
SynchronizeBegin == Begin("synchronize")

\* synchronize(): this.mosaicInfo = await mosaicHttp.getMosaic(...)
SyncMosaic ==
  /\ pending.pc = "getMosaic"
  /\ \E read \in MosaicReads : mosaicInfo' = read
  /\ pending' = [pending EXCEPT !.pc = "getAccountInfo"]
  /\ UNCHANGED <<reserveInfo, result, ledger, calls>>

\* synchronize(): this.reserveInfo = await accountHttp.getAccountInfo(...)
SyncReserve ==
  /\ pending.pc = "getAccountInfo"
  /\ \E read \in ReserveReads : reserveInfo' = read
  /\ pending' = [pending EXCEPT !.pc = "resume"]
  /\ UNCHANGED <<mosaicInfo, result, ledger, calls>>

\* synchronize() called by itself resolves to true
SynchronizeEnd ==
  /\ pending.pc = "resume" /\ pending.entry = "synchronize"
  /\ result' = Result("synchronize", PoolTarget,
                      [cmd |-> NoCommand, resolved |-> FALSE,
                       out |-> Outcome("synchronized", "", "", TRUE, <<>>, <<"synchronize">>)])
  /\ pending' = NoPending
  /\ UNCHANGED <<mosaicInfo, reserveInfo, ledger, calls>>

\* The rest of AutomatedPool.execute once synchronize() has resolved
ExecuteResume ==
  /\ pending.pc = "resume" /\ pending.entry = "execute"
  /\ \E actor \in Accounts, command \in CommandNames :
       \E argv \in Argvs(command), balance \in ShareBalances(command) :
         result' = Result("execute", actor,
                          Dispatch("execute", actor, PoolIdentifier, command, argv,
                                   Held(balance), <<"synchronize">>))
  /\ pending' = NoPending
  /\ UNCHANGED <<mosaicInfo, reserveInfo, ledger, calls>>

\* The rest of AutomatedPool.publish once synchronize() has resolved
PublishResume ==
  /\ pending.pc = "resume" /\ pending.entry = "publish"
  /\ \E registry \in Accounts :
       result' = Result("publish", PoolTarget,
                        Dispatch("execute", PoolTarget, PoolIdentifier, "Publish",
                                 [EmptyArgv EXCEPT !.registry = registry],
                                 Held(0), <<"synchronize">>))
  /\ pending' = NoPending
  /\ UNCHANGED <<mosaicInfo, reserveInfo, ledger, calls>>

\* AutomatedPool.executeOffline
ExecuteOffline ==
  /\ Idle
  /\ \E actor \in Accounts, command \in CommandNames :
       \E argv \in Argvs(command), balance \in ShareBalances(command) :
         result' = Result("executeOffline", actor,
                          Dispatch("execute", actor, PoolIdentifier, command, argv,
                                   Held(balance), <<>>))
  /\ UNCHANGED <<mosaicInfo, reserveInfo, pending, ledger, calls>>

\* AutomatedPool.create
Create ==
  /\ Idle
  /\ \E provider \in Accounts, x \in XAmounts, y \in YAmounts :
       result' = Result("create", PoolTarget,
                        Dispatch("execute", PoolTarget, PoolIdentifier, "CreatePool",
                                 [EmptyArgv EXCEPT !.provider = provider, !.input_x = x, !.input_y = y],
                                 Held(0), <<>>))
  /\ UNCHANGED <<mosaicInfo, reserveInfo, pending, ledger, calls>>

\* AutomatedPool.canExecute
CanExecute ==
  /\ Idle
  /\ \E actor \in Accounts, command \in CommandNames :
       \E argv \in Argvs(command), balance \in ShareBalances(command) :
         result' = Result("canExecute", actor,
                          Dispatch("canExecute", actor, PoolIdentifier, command, argv,
                                   Held(balance), <<>>))
  /\ UNCHANGED <<mosaicInfo, reserveInfo, pending, ledger, calls>>

----------------------------------------------------------------------------
(* A command that keeps the default allowance, called directly: a subclass *)
(* of Executable with its own declared arguments and transaction list.     *)

ProofOnly(target) ==
  Signed(<<TransferTransaction(target, <<>>, <<"Swapable(v" \o ToString(Revision) \o ")", "executable">>)>>,
         <<target>>)

DeclaredArguments == {<<>>, <<"provider">>, <<"provider", "registry">>}
DirectArgvs ==
  {[EmptyArgv EXCEPT !.provider = p, !.registry = r] :
     p \in {NoAccount, "alice"}, r \in {NoAccount, "bob"}}

CommandCall ==
  /\ Idle
  /\ \E method \in {"execute", "canExecute"}, actor \in Accounts, target \in Accounts :
       \E arguments \in DeclaredArguments, list \in {<<>>, ProofOnly(target)}, argv \in DirectArgvs :
         LET cmd == Executable("Executable", arguments, list, Context(Revision, actor, argv),
                               AssetIdentifier(PoolIdentifier.id, target))
         IN result' = Result("command." \o method, actor,
                             [cmd |-> cmd, resolved |-> TRUE,
                              out |-> IF method = "execute" THEN execute(cmd, actor)
                                      ELSE allowanceOf(cmd, actor)])
  /\ UNCHANGED <<mosaicInfo, reserveInfo, pending, ledger, calls>>

\* The caller takes the outcome of the completed call; its context and
\* command instance are discarded.
Discard ==
  /\ pending = NoPending
  /\ result # NoResult
  /\ result' = NoResult
  /\ UNCHANGED <<mosaicInfo, reserveInfo, pending, ledger, calls>>

----------------------------------------------------------------------------
(* The framework and the orchestrator *)

Next ==
  \/ ExecuteBegin
  \/ PublishBegin
  \/ SynchronizeBegin
  \/ SyncMosaic
  \/ SyncReserve
  \/ SynchronizeEnd
  \/ ExecuteResume
  \/ PublishResume
  \/ ExecuteOffline
  \/ Create
  \/ CanExecute
  \/ CommandCall
  \/ Discard

Spec == Init /\ [][Next]_vars

----------------------------------------------------------------------------
(* The arithmetic of the commands over wider amounts: the orchestrator     *)
(* holds the snapshot of a completed synchronize() and runs Swap and       *)
(* AddLiquidity offline for a trader / provider that is not the actor.     *)

MathAmounts == (0..MaxMath) \cup {5, 10}
MathSupplies == (0..MaxMath) \cup {10000000}

MathInit ==
  /\ mosaicInfo \in {NoMosaicInfo}
                      \cup {MosaicInfo(toMosaicId(PoolIdentifier), s) : s \in MathSupplies}
  /\ reserveInfo \in {NoReserveInfo}
                       \cup {AccountInfo(rx, ry) : rx \in MathAmounts, ry \in MathAmounts}
  /\ pending = NoPending
  /\ result = NoResult
  /\ ledger = <<>>
  /\ calls = NoCalls

MathSwap ==
  /\ Idle
  /\ \E x \in {AssetAmount(a, n) : a \in Assets, n \in MathAmounts}, o \in Assets :
       result' = Result("executeOffline", "alice",
                        Dispatch("execute", "alice", PoolIdentifier, "Swap",
                                 [EmptyArgv EXCEPT !.trader = "bob", !.input_x = x, !.output = o],
                                 Held(0), <<>>))
  /\ UNCHANGED <<mosaicInfo, reserveInfo, pending, ledger, calls>>

MathAddLiquidity ==
  /\ Idle
  /\ \E x \in {AssetAmount(XAsset, n) : n \in MathAmounts},
        y \in {AssetAmount(YAsset, n) : n \in MathAmounts} :
       result' = Result("executeOffline", "alice",
                        Dispatch("execute", "alice", PoolIdentifier, "AddLiquidity",
                                 [EmptyArgv EXCEPT !.provider = "bob", !.input_x = x, !.input_y = y],
                                 Held(0), <<>>))
  /\ UNCHANGED <<mosaicInfo, reserveInfo, pending, ledger, calls>>

MathCreatePool ==
  /\ Idle
  /\ \E method \in {"execute", "canExecute"}, actor \in Accounts :
       \E x \in {AssetAmount(XAsset, n) : n \in MathAmounts},
          y \in {AssetAmount(YAsset, n) : n \in MathAmounts} :
         result' = Result(IF method = "execute" THEN "executeOffline" ELSE "canExecute", actor,
                          Dispatch(method, actor, PoolIdentifier, "CreatePool",
                                   [EmptyArgv EXCEPT !.provider = "bob", !.input_x = x, !.input_y = y],
                                   Held(0), <<>>))
  /\ UNCHANGED <<mosaicInfo, reserveInfo, pending, ledger, calls>>

\* The snapshot a synchronize() reads once the ledger has applied an
\* AddLiquidity batch: the supply increase of entry 01 and the deposit of
\* entry 03 are added to what was held, and the provider holds the minted
\* shares of entry 02.
AfterAddLiquidity(held, batch) ==
  LET x == batch[3].mosaics[1]
      y == batch[3].mosaics[2]
      mosaics == held.reserveInfo.mosaics
      credited == [mosaics EXCEPT ![x.id] = @ + x.amount]
  IN [mosaicInfo |-> [held.mosaicInfo EXCEPT !.supply = @ + batch[1].mosaics[1].amount],
      reserveInfo |-> [held.reserveInfo EXCEPT !.mosaics = [credited EXCEPT ![y.id] = @ + y.amount]],
      sharesInfo |-> batch[2].mosaics[1].amount]

\* AddLiquidity, then RemoveLiquidity of the minted shares by the same
\* provider with the same option list, against the snapshot after the add
MathRoundTrip ==
  /\ Idle
  /\ \E x \in {AssetAmount(XAsset, n) : n \in MathAmounts},
        y \in {AssetAmount(YAsset, n) : n \in MathAmounts} :
       LET argv == [EmptyArgv EXCEPT !.provider = "bob", !.input_x = x, !.input_y = y]
           added == Dispatch("execute", "bob", PoolIdentifier, "AddLiquidity", argv, Held(0), <<>>)
       IN /\ added.out.kind = "batch"
          /\ LET minted == AssetAmount(PoolIdentifier, added.out.batch[2].mosaics[1].amount)
             IN result' = Result("roundTrip", "bob",
                                 Dispatch("execute", "bob", PoolIdentifier, "RemoveLiquidity",
                                          [argv EXCEPT !.input_shares = minted],
                                          AfterAddLiquidity(Held(0), added.out.batch), <<>>))
  /\ UNCHANGED <<mosaicInfo, reserveInfo, pending, ledger, calls>>

MathNext ==
  \/ MathSwap
  \/ MathAddLiquidity
  \/ MathCreatePool
  \/ MathRoundTrip
  \/ Discard

SpecMath == MathInit /\ [][MathNext]_vars

----------------------------------------------------------------------------
(* The registry.  Batches executed under any revision are announced and    *)
(* confirmed on the ledger; a Registry lists the pools published to its    *)
(* account by reading the transfers the account received.                  *)

MaxRevision == 2
MaxLedger == 2

Revisions == 0..MaxRevision
RegistryAccount == "bob"
PoolTargets == {PoolTarget, RegistryAccount}
PoolIds == {PoolIdentifier.id, "0000beef"}

\* The revision argument of Registry.getPools(revision?): given or omitted
GivenRevision(r) == [given |-> TRUE, value |-> r]
NoRevision == [given |-> FALSE, value |-> 0]

\* TransactionService.flattenAggregateTransactions: the inner transactions
\* of every announced batch, in order
RECURSIVE flattenAggregateTransactions(_)
flattenAggregateTransactions(batches) ==
  IF batches = <<>> THEN <<>>
  ELSE Head(batches) \o flattenAggregateTransactions(Tail(batches))

\* TransactionService.filterElligibleIncomingTransfers
IsElligibleIncomingTransfer(tx, recipientAddr) ==
  /\ tx.type = "Transfer"
  /\ tx.recipient = recipientAddr
  /\ tx.message # EmptyMessage

\* TransactionService.getIncomingTransfers(address, 0)
getIncomingTransfers(history, address) ==
  SelectSeq(flattenAggregateTransactions(history),
            LAMBDA tx : IsElligibleIncomingTransfer(tx, address))

\* `Swapable(v${revision}):publish:`, as the fields the colons end
contractSignature(revision) == <<"Swapable(v" \o ToString(revision) \o ")", "publish">>

\* payload.startsWith(contractSignature): every field of the signature is
\* closed by a colon, so the payload starts with it when it has those fields
\* and something (possibly empty) after the last colon
startsWith(message, signature) ==
  /\ Len(message) > Len(signature)
  /\ \A i \in 1..Len(signature) : message[i] = signature[i]

\* payload.substr(contractSignature.length): the rest of the payload
RECURSIVE substr(_, _)
substr(message, from) ==
  IF from > Len(message) THEN ""
  ELSE IF from = Len(message) THEN message[from]
  ELSE message[from] \o ":" \o substr(message, from + 1)

\* MosaicId.createFromNonce(MosaicNonce.createFromHex(identifier), owner)
createFromNonce(identifier, owner) == toMosaicId(AssetIdentifier(identifier, owner))

\* PoolService.getPools: the transfers marked by the signature of a revision
markedTransfers(history, authority, revision) ==
  SelectSeq(getIncomingTransfers(history, authority),
            LAMBDA tx : startsWith(tx.message, contractSignature(revision)))

\* PoolService.getPools: owner and shares asset read from the marked transfers
markedMosaics(history, authority, revision) ==
  LET marked == markedTransfers(history, authority, revision)
  IN [i \in 1..Len(marked) |->
        [owner |-> marked[i].signer,
         mosaicId |-> createFromNonce(substr(marked[i].message, 3), marked[i].signer)]]

\* Registry.getPools: `!!revision ? revision : Revision`
RegistryRevision(requested) ==
  IF requested.given /\ requested.value # 0 THEN requested.value ELSE Revision

\* MetadataRepository.search({targetId}): the metadata attached to an asset
metadataOf(history, mosaicId) ==
  SelectSeq(flattenAggregateTransactions(history),
            LAMBDA tx : tx.type = "MosaicMetadata" /\ tx.mosaics[1].id = mosaicId)

\* new MosaicId(hex): accepts 16 hexadecimal digits, and nothing undefined
IsMosaicIdHex(hex) == hex # "undefined" /\ Len(hex) = 16

\* PoolService.KNOWN_METADATAS: the scoped keys generated from "Pool_Id",
\* "X_Id" and "Y_Id", in the order of declaration, and the field of each
KNOWN_METADATAS ==
  <<[key |-> "Pool_Id", field |-> "identifier"],
    [key |-> "X_Id", field |-> "x_mosaic_id"],
    [key |-> "Y_Id", field |-> "y_mosaic_id"]>>

\* fields.findIndex(v => v === key): -1 for a key that is not known
findIndex(key) ==
  IF \E i \in 1..Len(KNOWN_METADATAS) : KNOWN_METADATAS[i].key = key
  THEN (CHOOSE i \in 1..Len(KNOWN_METADATAS) : KNOWN_METADATAS[i].key = key) - 1
  ELSE -1

\* PoolService.getKnownMetadataKey
getKnownMetadataKey(key) ==
  IF findIndex(key) >= 0 THEN KNOWN_METADATAS[findIndex(key) + 1].field ELSE key

\* mosaicMetadata.sort((a, b) => indexA - indexB): a stable sort by index
sortMetadata(entries) ==
  SelectSeq(entries, LAMBDA e : findIndex(e.key) = -1)
    \o SelectSeq(entries, LAMBDA e : findIndex(e.key) = 0)
    \o SelectSeq(entries, LAMBDA e : findIndex(e.key) = 1)
    \o SelectSeq(entries, LAMBDA e : findIndex(e.key) = 2)

\* PoolService.interpretMetadata: the names the returned dictionary has.  It
\* reads the first entries, as many as there are known keys.
interpretedFields(formatted) ==
  {getKnownMetadataKey(formatted[i].key) : i \in 1..Len(KNOWN_METADATAS)}

\* PoolService.interpretMetadata: the value the returned dictionary holds
\* under a known field, "undefined" when it has no such field
interpretMetadata(formatted, field) ==
  LET hits == {i \in 1..Len(KNOWN_METADATAS) :
                 findIndex(formatted[i].key) >= 0
                 /\ getKnownMetadataKey(formatted[i].key) = field}
  IN IF hits = {} THEN "undefined"
     ELSE formatted[CHOOSE i \in hits : \A j \in hits : j <= i].value

\* PoolService.getInfo: "" when the pool resolves, else the error raised:
\* interpretMetadata reads `entry.scopedMetadataKey` of a missing entry, or
\* new MosaicId rejects the value
getInfoFailure(entries) ==
  LET formatted == sortMetadata(entries)
  IN IF Len(formatted) < Len(KNOWN_METADATAS) THEN "TypeError"
     ELSE IF \/ ~IsMosaicIdHex(interpretMetadata(formatted, "x_mosaic_id"))
             \/ ~IsMosaicIdHex(interpretMetadata(formatted, "y_mosaic_id"))
          THEN "Error"
          ELSE ""

\* PoolService.getInfo: the pool read back from the metadata of its shares;
\* an asset built by new MosaicId(hex) is named by that hex
getInfo(entries, owner, mosaicId) ==
  LET formatted == sortMetadata(entries)
  IN [target |-> owner, pMosaic |-> mosaicId,
      xMosaic |-> interpretMetadata(formatted, "x_mosaic_id"),
      yMosaic |-> interpretMetadata(formatted, "y_mosaic_id")]

\* A command run by its target under a context of any revision
RevisionCommand(name, revision, identifier, argv) ==
  Executable(name, Arguments(name), <<>>,
             Context(revision, identifier.target, argv), identifier)

\* The confirmed batches, as the network serves them
Confirmed == [i \in 1..Len(ledger) |-> ledger[i].batch]

\* A Publish or CreatePool batch is executed by the pool's target under some
\* revision, then signed, announced and confirmed.  The network confirms the
\* definition of an asset once.
Announce ==
  /\ Idle
  /\ Len(ledger) < MaxLedger
  /\ \E revision \in Revisions, target \in PoolTargets, id \in PoolIds,
        name \in {"Publish", "CreatePool"} :
       LET argv == IF name = "Publish"
                   THEN [EmptyArgv EXCEPT !.registry = RegistryAccount]
                   ELSE [EmptyArgv EXCEPT !.provider = "alice",
                                          !.input_x = AssetAmount(XAsset, 1),
                                          !.input_y = AssetAmount(YAsset, 1)]
           cmd == RevisionCommand(name, revision, AssetIdentifier(id, target), argv)
           out == execute(cmd, target)
       IN /\ out.kind = "batch"
          /\ name = "CreatePool" => metadataOf(Confirmed, toMosaicId(cmd.identifier)) = <<>>
          /\ ledger' = Append(ledger, [cmd |-> cmd, batch |-> out.batch])
  /\ UNCHANGED <<mosaicInfo, reserveInfo, pending, result, calls>>

\* Registry.getPools(revision?) up to `await service.getIncomingTransfers`
GetPoolsBegin ==
  /\ Idle
  /\ pending' = [entry |-> "getPools", pc |-> "getIncomingTransfers"]
  /\ UNCHANGED <<mosaicInfo, reserveInfo, result, ledger, calls>>

\* PoolService.getPools: filters the transfers by the contract signature and
\* reads the shares assets, up to `await Promise.all(...)`.  The outcome
\* keeps the revision that was asked for (trace) and the assets read (batch).
GetPoolsFilter ==
  /\ pending.entry = "getPools" /\ pending.pc = "getIncomingTransfers"
  /\ \E requested \in {NoRevision} \cup {GivenRevision(r) : r \in Revisions} :
       result' = Result("getPools", RegistryAccount,
                        [cmd |-> NoCommand, resolved |-> FALSE,
                         out |-> Outcome("marked", "",
                                         IF requested.given
                                         THEN ToString(requested.value) ELSE "undefined",
                                         TRUE,
                                         markedMosaics(Confirmed, RegistryAccount,
                                                       RegistryRevision(requested)),
                                         <<"getIncomingTransfers", "filter", "map">>)])
  /\ pending' = [entry |-> "getPools", pc |-> "getInfo"]
  /\ UNCHANGED <<mosaicInfo, reserveInfo, ledger, calls>>

\* PoolService.getPools: Promise.all over getInfo of every asset read
GetPoolsResolve ==
  /\ pending.entry = "getPools" /\ pending.pc = "getInfo"
  /\ LET mosaics == result.out.batch
         failed == {i \in 1..Len(mosaics) :
                      getInfoFailure(metadataOf(Confirmed, mosaics[i].mosaicId)) # ""}
     IN result' =
          [result EXCEPT
             !.resolved = failed = {},
             !.out = IF failed = {}
                     THEN Outcome("pools", "", result.out.arg, TRUE,
                                  [i \in 1..Len(mosaics) |->
                                     getInfo(metadataOf(Confirmed, mosaics[i].mosaicId),
                                             mosaics[i].owner, mosaics[i].mosaicId)],
                                  result.out.trace \o <<"getInfo">>)
                     ELSE Thrown(getInfoFailure(metadataOf(Confirmed,
                                   mosaics[CHOOSE i \in failed : \A j \in failed : i <= j].mosaicId)),
                                 result.out.arg, result.out.trace \o <<"getInfo">>)]
  /\ pending' = NoPending
  /\ UNCHANGED <<mosaicInfo, reserveInfo, ledger, calls>>

RegistryNext ==
  \/ Announce
  \/ GetPoolsBegin
  \/ GetPoolsFilter
  \/ GetPoolsResolve
  \/ Discard

SpecRegistry == Init /\ [][RegistryNext]_vars

----------------------------------------------------------------------------
(* Execute calls in progress at the same time on one orchestrator.  Every  *)
(* `await` of synchronize() is a point where another call may run; when    *)
(* the second read resolves, the call runs to its end without suspending.  *)

\* AutomatedPool.execute up to the first await of synchronize()
CallBegin(c) ==
  /\ calls[c].pc = "idle"
  /\ calls' = [calls EXCEPT ![c] = Call("getMosaic", NoMosaicInfo, NoReserveInfo)]
  /\ UNCHANGED <<mosaicInfo, reserveInfo, pending, result, ledger>>

\* synchronize(): this.mosaicInfo = await mosaicHttp.getMosaic(...)
CallMosaic(c) ==
  /\ calls[c].pc = "getMosaic"
  /\ \E read \in MosaicReads :
       /\ mosaicInfo' = read
       /\ calls' = [calls EXCEPT ![c] = Call("getAccountInfo", read, NoReserveInfo)]
  /\ UNCHANGED <<reserveInfo, pending, result, ledger>>

\* synchronize(): this.reserveInfo = await accountHttp.getAccountInfo(...),
\* then the rest of AutomatedPool.execute: the command is given the fields
\* of the orchestrator as they are now.
CallReserve(c) ==
  /\ calls[c].pc = "getAccountInfo"
  /\ result = NoResult
  /\ \E read \in ReserveReads, actor \in {PoolTarget, "alice"} :
       /\ reserveInfo' = read
       /\ calls' = [calls EXCEPT ![c] = Call("returned", calls[c].mosaicInfo, read)]
       /\ result' = Result("execute", actor,
                           Dispatch("execute", actor, PoolIdentifier, "AddLiquidity",
                                    [EmptyArgv EXCEPT !.provider = "alice",
                                                      !.input_x = AssetAmount(XAsset, 1),
                                                      !.input_y = AssetAmount(YAsset, 1)],
                                    [mosaicInfo |-> mosaicInfo, reserveInfo |-> read,
                                     sharesInfo |-> 0],
                                    <<"synchronize">>))
  /\ UNCHANGED <<mosaicInfo, pending, ledger>>

\* The caller takes the outcome of the call that returned
CallEnd(c) ==
  /\ calls[c].pc = "returned"
  /\ result' = NoResult
  /\ calls' = [calls EXCEPT ![c] = Call("idle", NoMosaicInfo, NoReserveInfo)]
  /\ UNCHANGED <<mosaicInfo, reserveInfo, pending, ledger>>

InterleaveNext ==
  \E c \in CallIds :
    \/ CallBegin(c)
    \/ CallMosaic(c)
    \/ CallReserve(c)
    \/ CallEnd(c)

SpecInterleave == Init /\ [][InterleaveNext]_vars

----------------------------------------------------------------------------
(* The pool on the ledger.  A batch that was computed is signed, announced *)
(* and settles atomically; the supply of the shares and the reserves of    *)
(* the target are what the settled batches have made them.  The            *)
(* orchestrator sees them when it synchronizes, and computes every batch   *)
(* from the snapshot it holds.                                             *)

\* The balance an account holds of an asset once the ledger operations
\* settled: a transfer takes from its signer what it gives to its recipient
BalanceOf(txs, account, mosaicId) ==
  LET Moved(tx) ==
        LET delta[i \in 0..Len(tx.mosaics)] ==
              IF i = 0 THEN 0
              ELSE delta[i - 1]
                   + (IF tx.mosaics[i].id # mosaicId THEN 0
                      ELSE (IF tx.recipient = account THEN tx.mosaics[i].amount ELSE 0)
                           - (IF tx.signer = account THEN tx.mosaics[i].amount ELSE 0))
        IN IF tx.type = "Transfer" THEN delta[Len(tx.mosaics)] ELSE 0
      balance[k \in 0..Len(txs)] ==
        IF k = 0 THEN 0 ELSE balance[k - 1] + Moved(txs[k])
  IN balance[Len(txs)]

\* The supply of an asset once the ledger operations settled
SupplyOf(txs, mosaicId) ==
  LET Changed(tx) ==
        IF tx.type # "MosaicSupplyChange" \/ tx.mosaics[1].id # mosaicId THEN 0
        ELSE IF tx.key = "Increase" THEN tx.mosaics[1].amount
             ELSE 0 - tx.mosaics[1].amount
      supply[k \in 0..Len(txs)] ==
        IF k = 0 THEN 0 ELSE supply[k - 1] + Changed(txs[k])
  IN supply[Len(txs)]

\* What getMosaic and getAccountInfo answer once the first n batches settled
SettledSnapshot(n) ==
  LET txs == flattenAggregateTransactions(SubSeq(Confirmed, 1, n))
  IN IF n = 0
     THEN [mosaicInfo |-> NoMosaicInfo, reserveInfo |-> NoReserveInfo]
     ELSE [mosaicInfo |-> MosaicInfo(toMosaicId(PoolIdentifier),
                                     SupplyOf(txs, toMosaicId(PoolIdentifier))),
           reserveInfo |-> AccountInfo(BalanceOf(txs, PoolTarget, toMosaicId(XAsset)),
                                       BalanceOf(txs, PoolTarget, toMosaicId(YAsset)))]

\* AutomatedPool.synchronize(), both reads answered by the same ledger state
PoolSynchronize ==
  /\ Idle
  /\ mosaicInfo' = SettledSnapshot(Len(ledger)).mosaicInfo
  /\ reserveInfo' = SettledSnapshot(Len(ledger)).reserveInfo
  /\ <<mosaicInfo', reserveInfo'>> # <<mosaicInfo, reserveInfo>>
  /\ UNCHANGED <<pending, result, ledger, calls>>

\* AutomatedPool.create
PoolCreate ==
  /\ Idle
  /\ ledger = <<>>
  /\ \E x \in {1, 3} :
       result' = Result("create", PoolTarget,
                        Dispatch("execute", PoolTarget, PoolIdentifier, "CreatePool",
                                 [EmptyArgv EXCEPT !.provider = "bob",
                                                   !.input_x = AssetAmount(XAsset, x),
                                                   !.input_y = AssetAmount(YAsset, 2 * x)],
                                 Held(0), <<>>))
  /\ UNCHANGED <<mosaicInfo, reserveInfo, pending, ledger, calls>>

\* AutomatedPool.executeOffline of a Swap or an AddLiquidity, computed from
\* the snapshot the orchestrator holds
PoolExecuteOffline ==
  /\ Idle
  /\ Len(ledger) \in 1..(MaxSettled - 1)
  /\ \E argv \in {[EmptyArgv EXCEPT !.trader = "alice",
                                    !.input_x = AssetAmount(i, n), !.output = o] :
                    i \in Assets, o \in Assets, n \in {1, 2}}
                 \cup {[EmptyArgv EXCEPT !.provider = "bob",
                                         !.input_x = AssetAmount(XAsset, n),
                                         !.input_y = AssetAmount(YAsset, m)] :
                         n \in {1, 2}, m \in {1, 2}} :
       result' = Result("executeOffline", "alice",
                        Dispatch("execute", "alice", PoolIdentifier,
                                 IF argv.trader = NoAccount THEN "AddLiquidity" ELSE "Swap",
                                 argv, Held(0), <<>>))
  /\ UNCHANGED <<mosaicInfo, reserveInfo, pending, ledger, calls>>

\* The batch is announced and settles: the network accepts it when it leaves
\* the target no negative balance, whatever snapshot it was computed from.
PoolSettle ==
  /\ pending = NoPending
  /\ result.out.kind = "batch"
  /\ Len(ledger) < MaxSettled
  /\ LET txs == flattenAggregateTransactions(Confirmed \o <<result.out.batch>>)
     IN /\ BalanceOf(txs, PoolTarget, toMosaicId(XAsset)) >= 0
        /\ BalanceOf(txs, PoolTarget, toMosaicId(YAsset)) >= 0
  /\ ledger' = Append(ledger, [cmd |-> result.cmd, batch |-> result.out.batch])
  /\ result' = NoResult
  /\ UNCHANGED <<mosaicInfo, reserveInfo, pending, calls>>

PoolNext ==
  \/ PoolSynchronize
  \/ PoolCreate
  \/ PoolExecuteOffline
  \/ PoolSettle
  \/ Discard

SpecPool == Init /\ [][PoolNext]_vars

----------------------------------------------------------------------------
(* TransactionService.getUnprocessedTransactions *)

\* transactionHttp.search({..., offset}): the page of the confirmed history
\* that starts after the entry named by offset (from the start when no offset
\* is given, written 0); the criteria carry no page size, so the ledger serves
\* pages of its own size limit
search(history, offset, limit) ==
  SubSeq(history, offset + 1,
         IF offset + limit < Len(history) THEN offset + limit ELSE Len(history))

\* A confirmed history of the address, the transaction the caller has already
\* processed, the page size the service was built with and the one the ledger
\* serves
UnprocessedInit ==
  /\ mosaicInfo = NoMosaicInfo
  /\ reserveInfo = NoReserveInfo
  /\ pending = NoPending
  /\ result = NoResult
  /\ \E n \in 0..MaxHistory : ledger = [i \in 1..n |-> i]
  /\ \E lastTransactionId \in 0..MaxHistory, pageSize \in 1..MaxPage, limit \in 1..MaxPage :
       /\ lastTransactionId <= Len(ledger)
       /\ calls = [pc |-> "search", lastTransactionId |-> lastTransactionId,
                   pageSize |-> pageSize, limit |-> limit,
                   page |-> <<>>, data |-> <<>>, requests |-> 0]

\* A search answers: the page is emitted (concatMap appends its entries to
\* the array toArray collects) and handed to the expand callback
getUnprocessedTransactions ==
  /\ calls.pc = "search"
  /\ LET page == search(ledger, calls.lastTransactionId, calls.limit)
     IN calls' = [calls EXCEPT !.pc = "expand", !.page = page,
                               !.data = calls.data \o page,
                               !.requests = calls.requests + 1]
  /\ UNCHANGED <<mosaicInfo, reserveInfo, pending, result, ledger>>

\* The expand callback: a page of exactly pageSize entries asks for another
\* search, with offset lastTransactionId again; any other page ends the
\* stream and toArray delivers the collected entries
expand ==
  /\ calls.pc = "expand"
  /\ IF Len(calls.page) = calls.pageSize
     THEN /\ calls.requests < MaxRequests
          /\ calls' = [calls EXCEPT !.pc = "search"]
     ELSE calls' = [calls EXCEPT !.pc = "done"]
  /\ UNCHANGED <<mosaicInfo, reserveInfo, pending, result, ledger>>

UnprocessedNext ==
  \/ getUnprocessedTransactions
  \/ expand

SpecUnprocessed == UnprocessedInit /\ [][UnprocessedNext]_vars

----------------------------------------------------------------------------
(* PoolService.getInfo *)

\* The metadata search answers with the entries attached to a shares asset:
\* the three entries CreatePool writes, each holding a 16-digit asset id, and
\* any entries other accounts attached under keys of their own, in any order
InfoInit ==
  /\ mosaicInfo = NoMosaicInfo
  /\ reserveInfo = NoReserveInfo
  /\ pending = NoPending
  /\ result = NoResult
  /\ calls = NoCalls
  /\ LET written == {[key |-> "Pool_Id", value |-> "00000000000000AA"],
                     [key |-> "X_Id", value |-> "00000000000000BB"],
                     [key |-> "Y_Id", value |-> "00000000000000CC"]}
         others == {[key |-> "Note", value |-> "hello"],
                    [key |-> "Logo", value |-> "00000000000000DD"]}
     IN \E attached \in SUBSET others :
          \E entries \in [1..Cardinality(written \cup attached) -> written \cup attached] :
            /\ \A i, j \in DOMAIN entries : entries[i] = entries[j] => i = j
            /\ ledger = entries

\* PoolService.getInfo(targetAddress, lpSharesMosaic) on those entries
GetInfoCall ==
  /\ result = NoResult
  /\ result' = [entry |-> "getInfo",
                failure |-> getInfoFailure(ledger),
                fields |-> interpretedFields(sortMetadata(ledger)),
                pool |-> getInfo(ledger, PoolTarget, toMosaicId(PoolIdentifier))]
  /\ UNCHANGED <<mosaicInfo, reserveInfo, pending, ledger, calls>>

SpecInfo == InfoInit /\ [][GetInfoCall]_vars

----------------------------------------------------------------------------
(* Properties *)

\* Every argument the command declares is present in its context
AllPresent(cmd) ==
  \A i \in 1..Len(cmd.arguments) : HasInput(cmd.context.argv, cmd.arguments[i])

\* The completed call went through execute() of a command instance
RanExecute ==
  result.resolved /\ result.entry \in {"execute", "executeOffline", "create", "publish", "command.execute"}

\* The completed call went through canExecute() of a command instance only
RanCanExecute ==
  result.resolved /\ result.entry \in {"canExecute", "command.canExecute"}

Steps(trace) == {trace[i] : i \in 1..Len(trace)}

\* C1: for a command that keeps the default allowance, execute() with every
\* mandatory argument present throws OperationForbidden whenever the actor
\* is not the pool target, and returns the batch whenever the actor is the
\* target and the transaction list is not empty.
C1_DefaultAllowance ==
  (result.entry = "command.execute" /\ AllPresent(result.cmd)) =>
     /\ result.actor # result.cmd.target =>
          (result.out.kind = "failure" /\ result.out.failure = "OperationForbidden")
     /\ (result.actor = result.cmd.target /\ Len(result.cmd.list) > 0) =>
          (result.out.kind = "batch" /\ result.out.batch = result.cmd.list)

C1_Witness ==
  /\ result.entry = "command.execute"
  /\ Len(result.cmd.arguments) > 0 /\ AllPresent(result.cmd)
  /\ Len(result.cmd.list) > 0
  /\ result.actor # result.cmd.target
  /\ result.out.failure = "OperationForbidden"

\* C2: for each of the five commands, every actor and every held snapshot:
\* when a declared mandatory argument is missing from the context,
\* canExecute() and execute() throw MissingArgument, and the call evaluates
\* neither the allowance, nor a reserve lookup, nor the transaction list.
C2_MissingArgumentFirst ==
  (result.resolved /\ result.cmd.name \in AssetCommands /\ ~AllPresent(result.cmd)) =>
     /\ result.out.kind = "failure"
     /\ result.out.failure = "MissingArgument"
     /\ \E i \in 1..Len(result.cmd.arguments) :
          /\ result.out.arg = result.cmd.arguments[i]
          /\ ~HasInput(result.cmd.context.argv, result.cmd.arguments[i])
     /\ Steps(result.out.trace) \cap {"allowance", "reserveOf", "transactions", "createBonded"} = {}

C2_Witness ==
  /\ result.entry = "execute" /\ result.resolved
  /\ result.cmd.name = "Swap"
  /\ result.cmd.mosaicInfo.present /\ result.cmd.reserveInfo.present
  /\ HasInput(result.cmd.context.argv, "trader")
  /\ ~HasInput(result.cmd.context.argv, "input_x")
  /\ result.out.failure = "MissingArgument" /\ result.out.arg = "input_x"

\* C3: execute() runs canExecute() on every call; when canExecute() answers
\* status = false, execute() throws OperationForbidden, never asks for the
\* transaction list and returns no batch.  canExecute() never throws
\* OperationForbidden: with every mandatory argument present it returns an
\* allowance result.
C3_ExecuteChecksAllowance ==
  /\ RanExecute =>
       /\ "assertHasMandatoryArguments" \in Steps(result.out.trace)
       /\ AllPresent(result.cmd) => "allowance" \in Steps(result.out.trace)
       /\ (canExecute(result.cmd, result.actor).failure = ""
             /\ ~canExecute(result.cmd, result.actor).status) =>
            /\ result.out.kind = "failure"
            /\ result.out.failure = "OperationForbidden"
            /\ result.out.batch = <<>>
            /\ "transactions" \notin Steps(result.out.trace)
  /\ RanCanExecute =>
       /\ result.out.failure # "OperationForbidden"
       /\ AllPresent(result.cmd) => result.out.kind = "allowance"

C3_Witness ==
  /\ result.entry = "executeOffline" /\ result.resolved
  /\ result.cmd.name = "AddLiquidity"
  /\ AllPresent(result.cmd)
  /\ ~result.cmd.reserveInfo.present
  /\ result.out.failure = "OperationForbidden"

\* C4: whenever the transaction list of an authorized command is empty when
\* the contract is assembled, prepare() and so execute() throw
\* EmptyContract; no call of execute() returns a batch without entries.
C4_EmptyContract ==
  RanExecute =>
     /\ result.out.kind = "batch" => Len(result.out.batch) > 0
     /\ (canExecute(result.cmd, result.actor).failure = ""
           /\ canExecute(result.cmd, result.actor).status
           /\ Len(transactions(result.cmd)) = 0) =>
          (result.out.kind = "failure" /\ result.out.failure = "EmptyContract")

C4_Witness ==
  /\ result.entry = "command.execute"
  /\ result.actor = result.cmd.target
  /\ AllPresent(result.cmd)
  /\ Len(result.cmd.list) = 0
  /\ result.out.failure = "EmptyContract"

\* C5: for every command name that is not one of the five registered names,
\* canExecute, execute and executeOffline of the orchestrator throw
\* InvalidCommand and produce neither an allowance result nor a batch.
C5_InvalidCommand ==
  (result.entry \in {"canExecute", "execute", "executeOffline"}
     /\ result.cmd.name \notin AssetCommands) =>
     /\ ~result.resolved
     /\ result.out.kind = "failure"
     /\ result.out.failure = "InvalidCommand"

\* The identity whose holdings the deposits of a command are taken from
Depositor(cmd) ==
  IF cmd.name = "Swap" THEN getInput(cmd.context.argv, "trader", NoAccount)
  ELSE IF cmd.name = "Publish" THEN cmd.target
  ELSE getInput(cmd.context.argv, "provider", NoAccount)

\* C6: in every batch of CreatePool, AddLiquidity, RemoveLiquidity, Swap or
\* Publish, a transfer entry that carries assets is signed by the identity
\* whose holdings it debits (the provider / trader for what the target
\* receives, the target for what the provider / trader receives), and every
\* definition, supply change, metadata and restriction entry is signed by
\* the target.
C6_Signers ==
  (RanExecute /\ result.cmd.name \in AssetCommands /\ result.out.kind = "batch") =>
     \A i \in 1..Len(result.out.batch) :
        LET entry == result.out.batch[i]
        IN /\ entry.type # "Transfer" => entry.signer = result.cmd.target
           /\ (entry.type = "Transfer" /\ Len(entry.mosaics) > 0) =>
                IF entry.recipient = result.cmd.target
                THEN entry.signer = Depositor(result.cmd)
                ELSE /\ entry.recipient = Depositor(result.cmd)
                     /\ entry.signer = result.cmd.target

C6_Witness ==
  /\ result.entry = "execute" /\ result.resolved
  /\ result.cmd.name = "AddLiquidity" /\ result.out.kind = "batch"
  /\ Depositor(result.cmd) \notin {result.cmd.target, result.actor}
  /\ result.out.batch[2].mosaics[1].amount > 0
  /\ result.out.batch[2].signer = result.cmd.target
  /\ result.out.batch[3].mosaics[1].amount > 0
  /\ result.out.batch[3].signer = Depositor(result.cmd)

\* The amount a Swap batch transfers from the target to the trader
SwapPaid == result.out.batch[2].mosaics[1].amount

\* C7: for every Swap that passes the allowance check, the amount
\* transferred from the target to the trader,
\* reserve_y - reserve_x * reserve_y / (reserve_x + input_x.amount), is
\* above 0 and below reserve_y; for reserves 10 / 10 and an input of 1 it
\* is 10 - 100/11.
C7_SwapOutput ==
  (result.resolved /\ result.cmd.name = "Swap" /\ result.out.kind = "batch") =>
     LET input_x == result.cmd.context.argv.input_x
         reserve_x == result.cmd.reserveInfo.mosaics[toMosaicId(input_x.identifier)]
         reserve_y == result.cmd.reserveInfo.mosaics[toMosaicId(result.cmd.context.argv.output)]
     IN /\ 0 < SwapPaid /\ SwapPaid < reserve_y
        /\ (reserve_x = 10 /\ reserve_y = 10 /\ input_x.amount = 1) =>
             SwapPaid * 11 = 10 * 11 - 100

MintedShares(supply, input_x, reserve_x, input_y, reserve_y) ==
  LET a == input_x * supply
      b == input_y * supply
      floor_x == IF reserve_x # 0 THEN a \div reserve_x ELSE 0
      floor_y == IF reserve_y # 0 THEN b \div reserve_y ELSE 0
  IN IF reserve_x # 0 /\ reserve_y # 0
     THEN (IF floor_y < floor_x THEN floor_y ELSE floor_x)
     ELSE IF reserve_x = 0 /\ reserve_y # 0 THEN (IF a > 0 THEN floor_y ELSE 0)
     ELSE IF reserve_y = 0 /\ reserve_x # 0 THEN (IF b > 0 THEN floor_x ELSE 0)
     ELSE 0

\* An AddLiquidity batch, its inputs and the snapshot it was computed from
AddedLiquidity == result.resolved /\ result.cmd.name = "AddLiquidity" /\ result.out.kind = "batch"
AddedX == result.cmd.context.argv.input_x
AddedY == result.cmd.context.argv.input_y
AddedReserveX == result.cmd.reserveInfo.mosaics[toMosaicId(AddedX.identifier)]
AddedReserveY == result.cmd.reserveInfo.mosaics[toMosaicId(AddedY.identifier)]

\* The deposit entry carries exactly input_x.amount and input_y.amount
DepositCarriesInputs ==
  /\ result.out.batch[3].recipient = result.cmd.target
  /\ result.out.batch[3].mosaics
       = <<Mosaic(toMosaicId(AddedX.identifier), AddedX.amount),
           Mosaic(toMosaicId(AddedY.identifier), AddedY.amount)>>

\* C9 (as stated): the supply increase and the share transfer of an
\* authorized AddLiquidity both carry exactly
\* min(input_x.amount * supply / reserve_x, input_y.amount * supply / reserve_y),
\* and the deposit carries exactly the two inputs (stated where both
\* reserves are non-zero, so that both quotients are numbers).
C9_ExactLiquidity ==
  (AddedLiquidity /\ AddedReserveX # 0 /\ AddedReserveY # 0) =>
     LET supply == result.cmd.mosaicInfo.supply
         minted == result.out.batch[1].mosaics[1].amount
     IN /\ \/ /\ minted * AddedReserveX = AddedX.amount * supply
              /\ minted * AddedReserveY <= AddedY.amount * supply
           \/ /\ minted * AddedReserveY = AddedY.amount * supply
              /\ minted * AddedReserveX <= AddedX.amount * supply
        /\ result.out.batch[2].mosaics[1].amount = minted
        /\ DepositCarriesInputs

\* C9 (amended): the supply increase and the share transfer to the provider
\* both carry min(input_x.amount * supply / reserve_x,
\* input_y.amount * supply / reserve_y) rounded down to an integer (0 when
\* that minimum is not a finite number), the deposit carries exactly the two
\* inputs, and for supply 10_000_000, reserves 10 / 10 and inputs 5 / 5 the
\* amount is 5_000_000.
C9_Liquidity ==
  AddedLiquidity =>
     LET supply == result.cmd.mosaicInfo.supply
         minted == MintedShares(supply, AddedX.amount, AddedReserveX, AddedY.amount, AddedReserveY)
     IN /\ result.out.batch[1].type = "MosaicSupplyChange"
        /\ result.out.batch[1].mosaics[1].amount = minted
        /\ result.out.batch[2].recipient = result.cmd.context.argv.provider
        /\ result.out.batch[2].mosaics = <<Mosaic(toMosaicId(result.cmd.identifier), minted)>>
        /\ DepositCarriesInputs
        /\ (supply = 10000000 /\ AddedReserveX = 10 /\ AddedReserveY = 10
              /\ AddedX.amount = 5 /\ AddedY.amount = 5) => minted = 5000000

C9_Witness ==
  /\ AddedLiquidity
  /\ result.cmd.mosaicInfo.supply = 10000000
  /\ AddedReserveX = 10 /\ AddedReserveY = 10
  /\ AddedX.amount = 5 /\ AddedY.amount = 5
  /\ result.out.batch[1].mosaics[1].amount = 5000000
  /\ result.out.batch[2].mosaics[1].amount = 5000000

C11_CreatePoolShares ==
  (result.resolved /\ result.cmd.name = "CreatePool" /\ AllPresent(result.cmd)) =>
     LET input_x == result.cmd.context.argv.input_x
         input_y == result.cmd.context.argv.input_y
         product == input_x.amount * input_y.amount
     IN /\ RanCanExecute => (result.out.kind = "allowance" /\ result.out.status)
        /\ RanExecute =>
             /\ result.out.kind = "batch"
             /\ \A k \in 0..product :
                  k * k = product =>
                    /\ result.out.batch[3].type = "MosaicSupplyChange"
                    /\ result.out.batch[3].key = "Increase"
                    /\ result.out.batch[3].mosaics[1].amount = 1000000 * k
                    /\ result.out.batch[8].type = "Transfer"
                    /\ result.out.batch[8].recipient = result.cmd.context.argv.provider
                    /\ result.out.batch[8].mosaics
                         = <<Mosaic(toMosaicId(result.cmd.identifier), 1000000 * k)>>
             /\ (input_x.amount = 10 /\ input_y.amount = 10) =>
                  result.out.batch[3].mosaics[1].amount = 10000000

C11_Witness ==
  /\ RanExecute /\ result.cmd.name = "CreatePool"
  /\ result.actor # result.cmd.target
  /\ ~result.cmd.mosaicInfo.present /\ ~result.cmd.reserveInfo.present
  /\ result.cmd.context.argv.input_x.amount = 10
  /\ result.cmd.context.argv.input_y.amount = 10
  /\ result.out.kind = "batch"
  /\ result.out.batch[3].mosaics[1].amount = 10000000
  /\ result.out.batch[8].mosaics[1].amount = 10000000

\* The ids of the assets an entry refers to
AssetIds(entry) == {entry.mosaics[i].id : i \in 1..Len(entry.mosaics)}

\* C12: the CreatePool batch always has exactly ten entries in the
\* documented order: account metadata Pool_Id, shares asset definition,
\* supply increase, asset metadata Pool_Id, X_Id, Y_Id, account restriction
\* allowing only shares, fee, x and y, share transfer to the provider,
\* x / y deposit to the target, proof record; entries 1-8 are signed by the
\* target and 9-10 by the provider.  The definition precedes every other
\* entry that refers to the shares asset, and the supply increase precedes
\* the share transfer.
C12_CreatePoolSequence ==
  (RanExecute /\ result.cmd.name = "CreatePool" /\ result.out.kind = "batch") =>
     LET batch == result.out.batch
         cmd == result.cmd
         provider == cmd.context.argv.provider
         input_x == cmd.context.argv.input_x
         input_y == cmd.context.argv.input_y
         shares == toMosaicId(cmd.identifier)
     IN /\ Len(batch) = 10
        /\ [i \in 1..10 |-> batch[i].type]
             = <<"AccountMetadata", "MosaicDefinition", "MosaicSupplyChange",
                 "MosaicMetadata", "MosaicMetadata", "MosaicMetadata",
                 "AccountMosaicRestriction", "Transfer", "Transfer", "Transfer">>
        /\ batch[1].key = "Pool_Id" /\ batch[1].recipient = cmd.target
        /\ batch[2].mosaics[1].id = shares
        /\ batch[3].key = "Increase" /\ batch[3].mosaics[1].id = shares
        /\ [i \in 4..6 |-> batch[i].key] = [i \in 4..6 |-> <<"Pool_Id", "X_Id", "Y_Id">>[i - 3]]
        /\ \A i \in 4..6 : batch[i].mosaics[1].id = shares
        /\ batch[5].value = input_x.identifier.id /\ batch[6].value = input_y.identifier.id
        /\ batch[7].key = "AllowMosaic"
        /\ [i \in 1..Len(batch[7].mosaics) |-> batch[7].mosaics[i].id]
             = <<shares, FeeMosaicId, toMosaicId(input_x.identifier), toMosaicId(input_y.identifier)>>
        /\ batch[8].recipient = provider /\ AssetIds(batch[8]) = {shares}
        /\ batch[9].recipient = cmd.target
        /\ [i \in 1..Len(batch[9].mosaics) |-> batch[9].mosaics[i].id]
             = <<toMosaicId(input_x.identifier), toMosaicId(input_y.identifier)>>
        /\ batch[10].recipient = cmd.target /\ batch[10].mosaics = <<>>
        /\ Len(batch[10].message) > 0
        /\ \A i \in 1..8 : batch[i].signer = cmd.target
        /\ \A i \in 9..10 : batch[i].signer = provider
        /\ \A i \in 1..10 :
             (shares \in AssetIds(batch[i]) /\ batch[i].type # "MosaicDefinition") =>
               \E j \in 1..(i - 1) : batch[j].type = "MosaicDefinition" /\ shares \in AssetIds(batch[j])
        /\ \A i \in 1..10 :
             (batch[i].type = "Transfer" /\ shares \in AssetIds(batch[i])) =>
               \E j \in 1..(i - 1) : batch[j].type = "MosaicSupplyChange"

C12_Witness ==
  /\ result.entry = "create" /\ result.resolved
  /\ result.cmd.name = "CreatePool" /\ result.out.kind = "batch"
  /\ Len(result.out.batch) = 10
  /\ result.cmd.context.argv.provider \notin {result.cmd.target, NoAccount}
  /\ result.out.batch[8].signer = result.cmd.target
  /\ result.out.batch[9].signer = result.cmd.context.argv.provider

\* A RemoveLiquidity of the shares an AddLiquidity minted for inputs of
\* matching ratios, and the quantities of that round trip: the deposits, the
\* reserves and the supply after the add, the shares burnt, what is paid out.
RoundTrip ==
  /\ result.entry = "roundTrip" /\ result.out.kind = "batch"
  /\ result.cmd.reserveInfo.mosaics[toMosaicId(XAsset)] > result.cmd.context.argv.input_x.amount
  /\ result.cmd.reserveInfo.mosaics[toMosaicId(YAsset)] > result.cmd.context.argv.input_y.amount
  /\ result.cmd.context.argv.input_x.amount
       * (result.cmd.reserveInfo.mosaics[toMosaicId(YAsset)] - result.cmd.context.argv.input_y.amount)
     = result.cmd.context.argv.input_y.amount
       * (result.cmd.reserveInfo.mosaics[toMosaicId(XAsset)] - result.cmd.context.argv.input_x.amount)
BackX == result.cmd.context.argv.input_x.amount
BackY == result.cmd.context.argv.input_y.amount
PostReserveX == result.cmd.reserveInfo.mosaics[toMosaicId(XAsset)]
PostReserveY == result.cmd.reserveInfo.mosaics[toMosaicId(YAsset)]
PostSupply == result.cmd.mosaicInfo.supply
Burnt == result.out.batch[1].mosaics[1].amount
OutX == result.out.batch[2].mosaics[1].amount
OutY == result.out.batch[2].mosaics[2].amount

\* C13 (as stated): for inputs with input_x / reserve_x = input_y / reserve_y,
\* burning the liquidity minted by AddLiquidity against the state after the
\* add returns input_x and input_y up to integer rounding: never more than
\* was deposited, and less by at most one unit (stated for a positive
\* supply before the add, so that every quotient is a number).
C13_InverseWithinOne ==
  (RoundTrip /\ PostSupply > Burnt) =>
     /\ OutX <= BackX /\ BackX - OutX <= 1
     /\ OutY <= BackY /\ BackY - OutY <= 1

\* C13 (amended): for inputs of matching ratios, burning the minted
\* liquidity against the state after the add never returns more than was
\* deposited; it returns exactly the deposits when the supply before the
\* add is positive and the minted liquidity needed no rounding, and
\* otherwise falls short by less than
\* 1 + (reserve before the add) / (supply after the add).
C13_Inverse ==
  RoundTrip =>
     /\ Burnt = result.cmd.context.argv.input_shares.amount
     /\ Burnt = result.cmd.sharesInfo
     /\ OutX <= BackX /\ OutY <= BackY
     /\ (PostSupply > Burnt /\ (BackX * (PostSupply - Burnt)) % (PostReserveX - BackX) = 0) =>
          (OutX = BackX /\ OutY = BackY)
     /\ (BackX - OutX) * PostSupply < PostSupply + (PostReserveX - BackX)
     /\ (BackY - OutY) * PostSupply < PostSupply + (PostReserveY - BackY)

C13_Witness ==
  /\ RoundTrip
  /\ PostSupply = 10000000 + 5000000 /\ Burnt = 5000000
  /\ PostReserveX = 15 /\ PostReserveY = 15
  /\ BackX = 5 /\ BackY = 5
  /\ OutX = 5 /\ OutY = 5

\* input_shares * reserve / supply in integers (0 when the supply is 0)
PaidOut(input_shares, reserve, supply) ==
  IF supply # 0 THEN (input_shares * reserve) \div supply ELSE 0

\* C14: with provider and input_shares present, RemoveLiquidity is allowed
\* exactly when the snapshot is present and input_shares is at most the
\* share balance of the provider; an allowed RemoveLiquidity decreases the
\* shares supply by exactly input_shares and pays out_x and out_y from the
\* target to the provider.
C14_RemoveLiquidity ==
  (result.resolved /\ result.cmd.name = "RemoveLiquidity" /\ AllPresent(result.cmd)) =>
     LET cmd == result.cmd
         input_shares == cmd.context.argv.input_shares.amount
         allowed == /\ cmd.mosaicInfo.present /\ cmd.reserveInfo.present
                    /\ input_shares <= cmd.sharesInfo
         batch == result.out.batch
     IN /\ RanCanExecute => (result.out.kind = "allowance" /\ result.out.status = allowed)
        /\ RanExecute =>
             /\ (result.out.kind = "batch") = allowed
             /\ ~allowed => result.out.failure = "OperationForbidden"
             /\ allowed =>
                  /\ batch[1].type = "MosaicSupplyChange" /\ batch[1].key = "Decrease"
                  /\ batch[1].mosaics = <<Mosaic(cmd.mosaicInfo.id, input_shares)>>
                  /\ batch[1].signer = cmd.target
                  /\ batch[2].type = "Transfer"
                  /\ batch[2].recipient = cmd.context.argv.provider
                  /\ batch[2].signer = cmd.target
                  /\ batch[2].mosaics
                       = <<Mosaic(toMosaicId(XAsset),
                                  PaidOut(input_shares, cmd.reserveInfo.mosaics[toMosaicId(XAsset)],
                                          cmd.mosaicInfo.supply)),
                           Mosaic(toMosaicId(YAsset),
                                  PaidOut(input_shares, cmd.reserveInfo.mosaics[toMosaicId(YAsset)],
                                          cmd.mosaicInfo.supply))>>

C14_Witness ==
  /\ result.entry = "execute" /\ result.resolved
  /\ result.cmd.name = "RemoveLiquidity" /\ result.out.kind = "batch"
  /\ result.cmd.context.argv.input_shares.amount = 1
  /\ result.cmd.sharesInfo = 1
  /\ result.cmd.context.argv.provider \notin {result.cmd.target, result.actor}
  /\ result.out.batch[1].mosaics[1].amount = 1
  /\ result.out.batch[2].mosaics[1].amount > 0
  /\ result.out.batch[2].mosaics[2].amount > 0

----------------------------------------------------------------------------
(* Registry *)

\* The pools published to the registry under a revision, from the commands
\* that produced the confirmed batches
RECURSIVE PublishedUnder(_, _)
PublishedUnder(entries, revision) ==
  IF entries = <<>> THEN <<>>
  ELSE LET cmd == Head(entries).cmd
       IN (IF /\ cmd.name = "Publish"
              /\ cmd.context.revision = revision
              /\ cmd.context.argv.registry = RegistryAccount
           THEN <<[owner |-> cmd.target, mosaicId |-> toMosaicId(cmd.identifier)]>>
           ELSE <<>>) \o PublishedUnder(Tail(entries), revision)

\* A getPools call has filtered the transfers of the registry
Filtered == result.entry = "getPools" /\ result.out.kind = "marked"

\* C16 (as stated): when the Registry is asked for the pools of revision r,
\* the records that pass its prefix filter are exactly the records Publish
\* wrote under revision r, and the asset extracted from each is the shares
\* asset of the pool that published it; records written under another revision
\* or by another operation do not pass.
C16_RegistryRoundTrip ==
  \A r \in Revisions :
    (Filtered /\ result.out.arg = ToString(r))
      => result.out.batch = PublishedUnder(ledger, r)


----------------------------------------------------------------------------
(* synchronize *)

\* A step of synchronize() whose ledger read failed: the error is caught by
\* catchError and the read yields undefined
MosaicReadFailed ==
  pending.pc = "getMosaic" /\ pending'.pc = "getAccountInfo" /\ mosaicInfo' = NoMosaicInfo
ReserveReadFailed ==
  pending.pc = "getAccountInfo" /\ pending'.pc = "resume" /\ reserveInfo' = NoReserveInfo

\* C17 (as stated): a ledger read that fails during synchronize leaves the
\* held snapshot component as it was before the call: the supply info after a
\* failed getMosaic, the reserve info after a failed getAccountInfo, is the
\* value held before the step.
C17_FailedReadKeepsSnapshot ==
  [][/\ MosaicReadFailed => mosaicInfo' = mosaicInfo
     /\ ReserveReadFailed => reserveInfo' = reserveInfo]_vars


----------------------------------------------------------------------------
(* Allowance without a snapshot *)

\* The command of the last call requires a snapshot, has every mandatory
\* argument, and was given no supply snapshot or no reserve snapshot
WithoutSnapshot ==
  /\ result.resolved
  /\ result.cmd.name \in {"AddLiquidity", "RemoveLiquidity", "Swap"}
  /\ AllPresent(result.cmd)
  /\ ~result.cmd.mosaicInfo.present \/ ~result.cmd.reserveInfo.present

----------------------------------------------------------------------------
(* Online and offline entry points *)

OnlineEntries == {"execute", "publish"}
OfflineEntries == {"executeOffline", "create", "canExecute"}

\* The operation of the last call was given the snapshot the orchestrator holds
InjectedHeld ==
  result.resolved =>
     /\ result.cmd.mosaicInfo = mosaicInfo
     /\ result.cmd.reserveInfo = reserveInfo

\* What a completed call did: an online call synchronized first, before the
\* operation was resolved and before any step of its allowance check; an
\* offline call never synchronized.  Both injected the held snapshot.
EntryPointOutcome ==
  /\ result.entry \in OnlineEntries =>
       /\ Len(result.out.trace) >= 2
       /\ result.out.trace[1] = "synchronize"
       /\ result.out.trace[2] = "getCommand"
       /\ \A i \in 2..Len(result.out.trace) : result.out.trace[i] # "synchronize"
       /\ InjectedHeld
  /\ result.entry \in OfflineEntries =>
       /\ "synchronize" \notin Steps(result.out.trace)
       /\ InjectedHeld

\* How a call proceeds: an online call starts with the first read of
\* synchronize(), reaches the second read only after the first and resumes
\* only after the second; it dispatches only once resumed, with the snapshot
\* as the reads left it.  An offline call dispatches while no synchronize()
\* is in progress and leaves the held snapshot as it is.
EntryPointStep ==
  /\ (pending = NoPending /\ pending' # NoPending) => pending'.pc = "getMosaic"
  /\ (pending' # pending /\ pending'.pc = "getAccountInfo") =>
       (pending.pc = "getMosaic" /\ pending.entry = pending'.entry)
  /\ (pending' # pending /\ pending'.pc = "resume") =>
       (pending.pc = "getAccountInfo" /\ pending.entry = pending'.entry)
  /\ (result' # result /\ result'.entry \in OnlineEntries) =>
       /\ pending.pc = "resume" /\ pending.entry = result'.entry
       /\ UNCHANGED <<mosaicInfo, reserveInfo>>
  /\ (result' # result /\ result'.entry \in OfflineEntries) =>
       /\ pending = NoPending /\ pending' = NoPending
       /\ UNCHANGED <<mosaicInfo, reserveInfo>>

\* C19: execute and publish complete synchronize() before the operation is
\* resolved and before its allowance check runs, and inject the refreshed
\* snapshot; executeOffline, create and the orchestrator's canExecute never
\* run synchronize(), leave the held supply / reserve snapshot unchanged and
\* inject exactly the snapshot already held.
C19_EntryPoints == []EntryPointOutcome /\ [][EntryPointStep]_vars

C19_Witness ==
  /\ result.entry = "execute" /\ result.resolved
  /\ result.cmd.name = "AddLiquidity"
  /\ result.cmd.mosaicInfo.present /\ result.cmd.reserveInfo.present
  /\ result.cmd.mosaicInfo = mosaicInfo /\ result.cmd.reserveInfo = reserveInfo
  /\ result.out.kind = "batch"


----------------------------------------------------------------------------
(* Proof records *)

\* The kebab-case names of the five operations
KebabCase ==
  [CreatePool |-> "create-pool", AddLiquidity |-> "add-liquidity",
   RemoveLiquidity |-> "remove-liquidity", Swap |-> "swap", Publish |-> "publish"]

\* Swapable(v<revision>):<kebab-case operation name>:<shares-asset-id>, as the
\* fields the colons separate
ProofText(cmd) ==
  <<"Swapable(v" \o ToString(cmd.context.revision) \o ")",
    KebabCase[cmd.name], cmd.identifier.id>>

\* A proof record: a transfer that moves no asset and carries a message
IsProof(tx) == tx.type = "Transfer" /\ tx.mosaics = <<>> /\ tx.message # EmptyMessage

\* The last call produced the batch of one of the five operations
ProducedBatch ==
  /\ RanExecute /\ result.out.kind = "batch"
  /\ result.cmd.name \in DOMAIN KebabCase

\* The batch holds exactly one proof record, and holds it last
OneProofLast(batch) ==
  /\ Len(batch) >= 1
  /\ IsProof(batch[Len(batch)])
  /\ \A i \in 1..(Len(batch) - 1) : ~IsProof(batch[i])

----------------------------------------------------------------------------
(* Pool info read back by the Registry *)

\* A getPools call has completed: it returned the pools or it was rejected
Resolved ==
  result.entry = "getPools" /\ result.out.kind \in {"pools", "failure"}

\* The pool info of a pool as CreatePool confirmed it: its target, its shares
\* asset and the paired assets its batch transfers to the target and
\* restricts the target to
CreatedPool(cmd) ==
  [target |-> cmd.target, pMosaic |-> toMosaicId(cmd.identifier),
   xMosaic |-> toHex(toMosaicId(cmd.context.argv.input_x.identifier)),
   yMosaic |-> toHex(toMosaicId(cmd.context.argv.input_y.identifier))]

\* Entry i of the ledger created a pool and a later entry j published it to
\* the registry under revision r
CreatedThenPublished(i, j, r) ==
  /\ i < j
  /\ ledger[i].cmd.name = "CreatePool" /\ ledger[j].cmd.name = "Publish"
  /\ ledger[i].cmd.identifier = ledger[j].cmd.identifier
  /\ ledger[j].cmd.context.argv.registry = RegistryAccount
  /\ ledger[j].cmd.context.revision = r

\* C21 (as stated): when the Registry lists the pools of a revision r, every
\* pool that CreatePool created and its target then published under r is
\* resolved, and its pool info names the target, the shares asset and the x
\* and y assets that CreatePool transfers and restricts the target to.
C21_ResolvedPool ==
  \A r \in Revisions \ {0} : \A i, j \in 1..Len(ledger) :
    (Resolved /\ result.out.arg = ToString(r) /\ CreatedThenPublished(i, j, r))
      => /\ result.out.kind = "pools"
         /\ \E k \in 1..Len(result.out.batch) :
              result.out.batch[k] = CreatedPool(ledger[i].cmd)


----------------------------------------------------------------------------
(* The states of an execute call *)

\* Where a step first appears in the steps of a call
FirstAt(trace, step) ==
  CHOOSE i \in 1..Len(trace) : trace[i] = step /\ \A j \in 1..(i - 1) : trace[j] # step

\* C22: an execute call goes Unchecked -> Authorized -> Assembled -> Executed
\* or ends Rejected.  The transaction list is requested only after the
\* allowance check of the same call answered status = true; a batch is output
\* only after a non-empty list was assembled; a call rejected by
\* MissingArgument, OperationForbidden or EmptyContract stops at the step that
\* rejected it and outputs no batch.
C22_ExecuteStates ==
  RanExecute =>
     LET trace == result.out.trace
         steps == Steps(trace)
         auth == canExecute(result.cmd, result.actor)
     IN /\ result.out.kind \in {"batch", "failure"}
        /\ "transactions" \in steps =>
             /\ auth.failure = "" /\ auth.status
             /\ "allowance" \in steps
             /\ FirstAt(trace, "allowance") < FirstAt(trace, "transactions")
        /\ result.out.kind = "batch" =>
             /\ Len(result.out.batch) > 0
             /\ result.out.batch = transactions(result.cmd)
             /\ "transactions" \in steps
             /\ trace[Len(trace)] = "createBonded"
             /\ FirstAt(trace, "transactions") < FirstAt(trace, "createBonded")
        /\ result.out.kind = "failure" =>
             /\ result.out.batch = <<>>
             /\ "createBonded" \notin steps
             /\ result.out.failure \in {"MissingArgument", "OperationForbidden", "EmptyContract"}
             /\ result.out.failure = "MissingArgument" =>
                  /\ trace[Len(trace)] = "assertHasMandatoryArguments"
                  /\ "allowance" \notin steps /\ "transactions" \notin steps
             /\ result.out.failure = "OperationForbidden" =>
                  /\ trace[Len(trace)] = "allowance"
                  /\ "transactions" \notin steps
             /\ result.out.failure = "EmptyContract" =>
                  /\ trace[Len(trace)] = "transactions"
                  /\ auth.failure = "" /\ auth.status

C22_Witness ==
  /\ RanExecute
  /\ result.entry = "executeOffline"
  /\ result.cmd.name = "AddLiquidity"
  /\ result.out.kind = "batch"
  /\ result.out.trace =
       <<"getCommand", "assertHasMandatoryArguments", "allowance",
         "transactions", "transactions", "createBonded">>


----------------------------------------------------------------------------
(* Calls in progress at the same time *)

\* C23 (as stated): when execute calls on one orchestrator interleave at the
\* awaits of synchronize(), the supply snapshot and the reserve snapshot given
\* to the operation of a call are the pair that call's own synchronize() read.
C23_OwnSnapshot ==
  \A c \in CallIds :
    (calls[c].pc = "returned" /\ result.resolved) =>
       /\ result.cmd.mosaicInfo = calls[c].mosaicInfo
       /\ result.cmd.reserveInfo = calls[c].reserveInfo


----------------------------------------------------------------------------
(* The constant product *)

\* The product of the reserves once the first n batches settled
Product(n) ==
  SettledSnapshot(n).reserveInfo.mosaics[toMosaicId(XAsset)]
    * SettledSnapshot(n).reserveInfo.mosaics[toMosaicId(YAsset)]

\* Batch i is a Swap that settled against the reserves it was computed from
FreshSwap(i) ==
  /\ i \in 2..Len(ledger)
  /\ ledger[i].cmd.name = "Swap"
  /\ ledger[i].cmd.reserveInfo = SettledSnapshot(i - 1).reserveInfo

\* C24: for every allowed Swap that pays output_y truncated to an integer and
\* settles against the reserves it was computed from,
\* (reserve_x + input_x.amount) * (reserve_y - output_y) >= reserve_x * reserve_y,
\* and over any run of such swaps, each computed from the then-current
\* reserves, the product of the reserves does not decrease.
C24_ConstantProduct ==
  /\ \A i \in 2..Len(ledger) :
       FreshSwap(i) =>
          LET cmd == ledger[i].cmd
              input_x == cmd.context.argv.input_x
              reserve_x == reserveOf(cmd, input_x.identifier)
              reserve_y == reserveOf(cmd, cmd.context.argv.output)
              output_y == ledger[i].batch[2].mosaics[1].amount
          IN /\ output_y >= 0
             /\ (reserve_x + input_x.amount) * (reserve_y - output_y) >= reserve_x * reserve_y
  /\ \A i, j \in 1..Len(ledger) :
       (i < j /\ \A k \in (i + 1)..j : FreshSwap(k)) => Product(j) >= Product(i)

C24_Witness ==
  /\ Len(ledger) = 3
  /\ FreshSwap(2) /\ FreshSwap(3)
  /\ ledger[2].batch[2].mosaics[1].amount >= 1
  /\ ledger[3].batch[2].mosaics[1].amount >= 1
  /\ ledger[2].cmd.context.argv.input_x.identifier # ledger[2].cmd.context.argv.output
  /\ Product(3) > Product(1)

----------------------------------------------------------------------------
(* Batches computed from a stale snapshot *)

\* Batch i is a Swap computed from the reserves as they were once the first
\* n batches settled
SwapComputedAt(i, n) ==
  /\ i \in 2..Len(ledger)
  /\ ledger[i].cmd.name = "Swap"
  /\ ledger[i].cmd.reserveInfo = SettledSnapshot(n).reserveInfo

\* C25: batches are never revalidated against the ledger: every settled Swap
\* pays the output computed from the snapshot injected into its command,
\* floor(reserve_y * input / (reserve_x + input)) over the snapshot's
\* reserves, whatever the reserves are when it settles; in particular two
\* Swap batches computed from the same snapshot can both settle and leave
\* reserves whose product is strictly smaller than the snapshot's.
C25_NeverRevalidated ==
  \A i \in 2..Len(ledger) :
    ledger[i].cmd.name = "Swap" =>
      LET cmd == ledger[i].cmd
          input_x == cmd.context.argv.input_x
          reserve_x == cmd.reserveInfo.mosaics[toMosaicId(input_x.identifier)]
          reserve_y == cmd.reserveInfo.mosaics[toMosaicId(cmd.context.argv.output)]
      IN ledger[i].batch[2].mosaics[1].amount
           = (reserve_y * input_x.amount) \div (reserve_x + input_x.amount)

C25_Witness ==
  /\ Len(ledger) = 3
  /\ SwapComputedAt(2, 1) /\ SwapComputedAt(3, 1)
  /\ SettledSnapshot(2).reserveInfo # SettledSnapshot(1).reserveInfo
  /\ Product(3) < Product(1)

----------------------------------------------------------------------------
(* Reading the unprocessed transactions *)

\* The transactions of the history that come after lastTransactionId
Unprocessed == SubSeq(ledger, calls.lastTransactionId + 1, Len(ledger))

\* C26: getUnprocessedTransactions terminates on every finite confirmed
\* history and returns every transaction of it exactly once, also when a page
\* holds exactly pageSize entries: no transaction is collected twice, a full
\* page is followed by a search that starts after the last entry read, and the
\* array delivered is the whole unprocessed history.
C26_EveryTransactionOnce ==
  /\ \A i, j \in 1..Len(calls.data) : calls.data[i] = calls.data[j] => i = j
  /\ (calls.pc = "search" /\ calls.requests > 0)
        => search(ledger, calls.lastTransactionId, calls.limit)
             = search(ledger, calls.lastTransactionId + Len(calls.data), calls.limit)
  /\ calls.pc = "done" => calls.data = Unprocessed

----------------------------------------------------------------------------
(* Reading a pool back from its metadata *)

\* The value the entries hold under a key
StoredUnder(entries, key) ==
  entries[CHOOSE i \in DOMAIN entries : entries[i].key = key].value

\* C27: for a shares asset that carries the Pool_Id, X_Id and Y_Id entries,
\* getInfo returns as x asset and y asset the values stored under X_Id and
\* Y_Id, whatever the order of the entries and whatever entries with other
\* keys are attached, and the dictionary it reads has known fields only.
C27_InfoFromKnownKeys ==
  result.entry = "getInfo" =>
    /\ result.failure = ""
    /\ result.pool.xMosaic = StoredUnder(ledger, "X_Id")
    /\ result.pool.yMosaic = StoredUnder(ledger, "Y_Id")
    /\ result.fields \subseteq {KNOWN_METADATAS[i].field : i \in 1..Len(KNOWN_METADATAS)}

----------------------------------------------------------------------------
(* The divisors of AddLiquidity *)

\* C28: whenever AddLiquidity passes its allowance check and builds its
\* batch, both divisors reserve_x and reserve_y read from the injected
\* snapshot are non-zero and the minted amount is a well-defined non-negative
\* number: no supply increase or share transfer is built from a division by
\* zero.
C28_NonZeroDivisors ==
  AddedLiquidity =>
     /\ AddedReserveX # 0
     /\ AddedReserveY # 0
     /\ Liquidity(result.cmd).kind = "fin"
     /\ Liquidity(result.cmd).n >= 0

----------------------------------------------------------------------------
(* Dilution *)

\* Batch i is an AddLiquidity that settled against the supply and the
\* reserves it was computed from
FreshAddLiquidity(i) ==
  /\ i \in 2..Len(ledger)
  /\ ledger[i].cmd.name = "AddLiquidity"
  /\ ledger[i].cmd.reserveInfo = SettledSnapshot(i - 1).reserveInfo
  /\ ledger[i].cmd.mosaicInfo = SettledSnapshot(i - 1).mosaicInfo

\* Every batch settled before batch i was computed from the then-current state
FreshHistory(i) ==
  \A k \in 2..(i - 1) :
    /\ ledger[k].cmd.reserveInfo = SettledSnapshot(k - 1).reserveInfo
    /\ ledger[k].cmd.mosaicInfo = SettledSnapshot(k - 1).mosaicInfo

\* C29: AddLiquidity never dilutes the existing share holders: after any
\* sequence of settled CreatePool, AddLiquidity and Swap batches, each
\* computed from the then-current reserves, an AddLiquidity step satisfies
\* (reserve_x + input_x.amount) * supply >= reserve_x * (supply + liquidity)
\* and (reserve_y + input_y.amount) * supply >= reserve_y * (supply + liquidity).
C29_NoDilution ==
  \A i \in 2..Len(ledger) :
    (FreshAddLiquidity(i) /\ FreshHistory(i)) =>
       LET cmd == ledger[i].cmd
           input_x == cmd.context.argv.input_x
           input_y == cmd.context.argv.input_y
           supply == cmd.mosaicInfo.supply
           reserve_x == cmd.reserveInfo.mosaics[toMosaicId(input_x.identifier)]
           reserve_y == cmd.reserveInfo.mosaics[toMosaicId(input_y.identifier)]
           liquidity == ledger[i].batch[1].mosaics[1].amount
       IN /\ (reserve_x + input_x.amount) * supply >= reserve_x * (supply + liquidity)
          /\ (reserve_y + input_y.amount) * supply >= reserve_y * (supply + liquidity)

C29_Witness ==
  /\ Len(ledger) = 3
  /\ ledger[2].cmd.name = "Swap" /\ FreshSwap(2)
  /\ ledger[2].batch[2].mosaics[1].amount >= 1
  /\ FreshAddLiquidity(3) /\ FreshHistory(3)
  /\ ledger[3].batch[1].mosaics[1].amount >= 1

----------------------------------------------------------------------------
(* The actor *)

\* The command of the last call as another actor's call would build it
AsActor(actor) == [result.cmd EXCEPT !.context.actor = actor]

\* The last call ran CreatePool, AddLiquidity or Swap on a command instance
RanActorFree ==
  /\ RanExecute \/ RanCanExecute
  /\ result.cmd.name \in {"CreatePool", "AddLiquidity", "Swap"}

====
